---------------------------- MODULE Spec2Model ----------------------------
(***************************************************************************)
(* Expense Tracker (src/main.py): the per-user ledger, the normalizer of   *)
(* categories and saving sources, and the process-wide current user.       *)
(*                                                                         *)
(* Representation.                                                         *)
(*   - A Python str is a sequence of one-character strings, so that        *)
(*     str.strip() and str.lower() are computed, not assumed.              *)
(*   - Optional[T] is <<>> (None) or <<v>>.                                *)
(*   - A date "YYYY-MM-DD" is the integer YYYYMMDD: for such strings the   *)
(*     lexicographic order SQLite uses on TEXT is the integer order.       *)
(*   - REAL amounts are integers.                                          *)
(*   - A user id is a str like any other; os.path.join is computed on      *)
(*     its characters, and a database is known by the path of its file.    *)
(***************************************************************************)
EXTENDS Integers, Sequences, FiniteSets, TLC

VARIABLES
    categories,       \* load_json(CATEGORIES_PATH): key -> list of subcategories
    sources,          \* load_json(SAVING_SOURCES_PATH): list of sources
    CURRENT_USER_ID,  \* the module global of main.py
    db,               \* path -> the SQLite database data/<user id>/expenses.db
    last,             \* the call that returned last: what it was and its result
    pc,               \* task -> where the task stands in the handler it runs
    req               \* task -> the locals of the handler the task runs

vars == <<categories, sources, CURRENT_USER_ID, db, last, pc, req>>

\* The two resource files: no handler writes them.
config == <<categories, sources>>

-----------------------------------------------------------------------------
(* Python values *)

None == <<>>

Some(v) == <<v>>

\* Python truthiness of an Optional[str]: None and "" are falsy.
Truthy(o) == o # None /\ o[1] # <<>>

\* (o or "")
OrEmpty(o) == IF Truthy(o) THEN o[1] ELSE <<>>

UpperChars == <<"A","B","C","D","E","F","G","H","I","J","K","L","M",
                "N","O","P","Q","R","S","T","U","V","W","X","Y","Z">>

LowerChars == <<"a","b","c","d","e","f","g","h","i","j","k","l","m",
                "n","o","p","q","r","s","t","u","v","w","x","y","z">>

Whitespace == {" ", "\t", "\n"}

\* The lower-case letter of each upper-case letter.
ToLower ==
    [c \in {UpperChars[i] : i \in 1..Len(UpperChars)} |->
        LowerChars[CHOOSE i \in 1..Len(UpperChars) : UpperChars[i] = c]]

LowerChar(c) == IF c \in DOMAIN ToLower THEN ToLower[c] ELSE c

\* str.lower()
Lower(s) == [i \in 1..Len(s) |-> LowerChar(s[i])]

RECURSIVE LStrip(_)
LStrip(s) ==
    IF s # <<>> /\ Head(s) \in Whitespace THEN LStrip(Tail(s)) ELSE s

RECURSIVE RStrip(_)
RStrip(s) ==
    IF s # <<>> /\ s[Len(s)] \in Whitespace
    THEN RStrip(SubSeq(s, 1, Len(s) - 1))
    ELSE s

\* A strip that leaves the whitespace at the end.
StripLeft(s) == LStrip(s)

\* str.strip()
Strip(s) == RStrip(LStrip(s))

\* x in list
InList(x, l) == \E i \in 1..Len(l) : l[i] = x

-----------------------------------------------------------------------------
(* The words of the vocabulary and of the raw inputs *)

misc == <<"m","i","s","c">>
other == <<"o","t","h","e","r">>
food == <<"f","o","o","d">>
groceries == <<"g","r","o","c","e","r","i","e","s">>
dining == <<"d","i","n","i","n","g">>
travel == <<"t","r","a","v","e","l">>
flight == <<"f","l","i","g","h","t">>
hotel == <<"h","o","t","e","l">>
general == <<"g","e","n","e","r","a","l">>
salary == <<"s","a","l","a","r","y">>
bonus == <<"b","o","n","u","s">>
gift == <<"g","i","f","t">>

\* Resource files the handlers may find.  Each has the key "misc" and no
\* empty list, which lines 141-149 of main.py presuppose.
VocabOtherLast ==
    (food :> <<groceries, dining, other>>) @@ (travel :> <<flight, hotel>>)
        @@ (misc :> <<other>>)

VocabOtherFirst ==
    (food :> <<other, groceries>>) @@ (travel :> <<hotel, flight, other>>)
        @@ (misc :> <<general, other>>)

VocabNoOther ==
    (food :> <<groceries, dining>>) @@ (misc :> <<general>>)

Vocabularies == {VocabOtherLast, VocabOtherFirst, VocabNoOther}

SourceLists == { <<salary, bonus, other>>, <<other, salary>>, <<salary, gift>> }

\* The vocabulary of the ledger specifications.
LedgerCategories == (food :> <<groceries, other>>) @@ (misc :> <<other>>)

LedgerSources == <<salary, other>>

RawCategories ==
    { None, Some(<<>>), Some(<<" "," ">>), Some(food), Some(<<"F","O","O","D">>),
      Some(<<" ","F","o","o","d","\t">>), Some(<<"f","o","d","o">>), Some(misc),
      Some(<<"\n","T","r","a","v","e","l"," ">>), Some(groceries), Some(other),
      Some(<<"f","o"," ","o","d">>) }

RawSubcategories ==
    { None, Some(<<>>), Some(<<"\t">>), Some(groceries),
      Some(<<" ","G","R","O","C","E","R","I","E","S">>), Some(other),
      Some(<<"O","t","h","e","r"," ">>), Some(hotel), Some(general),
      Some(<<"x","y","z">>), Some(food) }

RawSources ==
    { None, Some(<<>>), Some(<<" ">>), Some(salary), Some(<<"S","a","l","a","r","y"," ">>),
      Some(other), Some(gift), Some(<<"l","o","t","t","o">>) }

-----------------------------------------------------------------------------
(* Validation functions, main.py 129-170 *)

\* A fallback that takes "other" to be in every list.
FallbackAlwaysOther(l) == other

\* The fallback of lines 146-149 and 151-154.
FallbackOf(l) == IF InList(other, l) THEN other ELSE l[1]

\* Lines 145-154 for the stripped, lower-cased subcategory ns and the list
\* avail of the category: the subcategory returned (IndexError on an empty list).
SubcategoryIn(avail, ns) ==
    IF ns # <<>> /\ InList(ns, avail) THEN [raised |-> FALSE, subcategory |-> ns]
    ELSE IF ~InList(other, avail) /\ avail = <<>> THEN [raised |-> TRUE, subcategory |-> ns]
    ELSE [raised |-> FALSE, subcategory |-> FallbackOf(avail)]

\* Lines 140-156 for the stripped, lower-cased inputs (KeyError at line 143
\* when the file has no key "misc").
WithCategory(r, nc) ==
    [raised |-> r.raised, category |-> nc, subcategory |-> r.subcategory]

Normalized(cats, nc0, ns0, nc) ==
    IF nc \notin DOMAIN cats
    THEN [raised |-> TRUE, category |-> nc, subcategory |-> ns0]
    ELSE WithCategory(SubcategoryIn(cats[nc], ns0), nc)

\* validate_category(category, subcategory) with the vocabulary cats.
validate_category(cats, category, subcategory) ==
    Normalized(cats, Lower(Strip(OrEmpty(category))), Lower(Strip(OrEmpty(subcategory))),
               IF Lower(Strip(OrEmpty(category))) \notin DOMAIN cats
               THEN misc ELSE Lower(Strip(OrEmpty(category))))

\* Lines 164-170 for the stripped, lower-cased source ns.
SourceIn(srcs, ns) ==
    IF ns # <<>> /\ InList(ns, srcs) THEN [raised |-> FALSE, source |-> ns]
    ELSE IF ~InList(other, srcs) /\ srcs = <<>> THEN [raised |-> TRUE, source |-> ns]
    ELSE [raised |-> FALSE, source |-> FallbackOf(srcs)]

\* validate_saving_source(source) with the list srcs.
validate_saving_source(srcs, source) == SourceIn(srcs, Lower(Strip(OrEmpty(source))))

-----------------------------------------------------------------------------
(* Tenants and their databases, main.py 28-123 *)

\* The user ids drawn.  "bob/" is an id of its own that differs from bob by
\* a path separator.
default_user == <<"d","e","f","a","u","l","t","_","u","s","e","r">>
alice == <<"a","l","i","c","e">>
bob == <<"b","o","b">>
bob_dir == <<"b","o","b","/">>

UserIds == {default_user, alice, bob, bob_dir}

\* DATA_DIR relative to BASE_DIR (line 12), and the name of the database file.
DATA_DIR == <<"d","a","t","a">>
expenses_db == <<"e","x","p","e","n","s","e","s",".","d","b">>

\* os.path.join(a, b) of posixpath: an absolute b replaces a; a separator is
\* put between the two unless a is empty or ends with one.
join(a, b) ==
    IF b # <<>> /\ b[1] = "/" THEN b
    ELSE IF a = <<>> \/ a[Len(a)] = "/" THEN a \o b
    ELSE a \o <<"/">> \o b

\* get_user_db_path(user_id): DATA_DIR/<user_id>/expenses.db.
get_user_db_path(user_id) == join(join(DATA_DIR, user_id), expenses_db)

DbPaths == {get_user_db_path(u) : u \in UserIds}

\* A fallback to the default user, whatever the global holds.
ResolveToDefault(user_id, cur) == IF Truthy(user_id) THEN user_id[1] ELSE default_user

\* resolve_user_id(user_id) when the global holds cur: "if not user_id" holds
\* for None and for the empty string.
resolve_user_id(user_id, cur) == IF Truthy(user_id) THEN user_id[1] ELSE cur

AllTables == {"expenses", "savings", "saving_goals", "budgets"}

\* A database file that does not exist yet: no table, no row.  seq is
\* sqlite_sequence, the largest id each AUTOINCREMENT table has ever given.
\* budgets is the list of its rows in the order of their insertion; its id
\* column is read by no handler and is left out.
NoDatabase ==
    [tables |-> {}, expenses |-> {}, savings |-> {}, saving_goals |-> {},
     budgets |-> <<>>,
     seq |-> [expenses |-> 0, savings |-> 0, saving_goals |-> 0]]

\* A connection that commits what its body did although the body failed.
CommitOnFailure(d, body, failed) == body

\* async with get_db_connection(user_id), lines 45-50: the database after
\* the block, d being the database before it and body the database as the
\* statements run in the block have left it on the connection.  A block that
\* completes is committed; an exception in the block, or in the commit, rolls
\* back.
get_db_connection(d, body, failed) == IF failed THEN d ELSE body

\* init_db: four CREATE TABLE IF NOT EXISTS; the rows of an existing table stay.
init_db(d) == [d EXCEPT !.tables = @ \cup AllTables]

Max(a, b) == IF a >= b THEN a ELSE b

MaxIdOf(rows) ==
    IF rows = {} THEN 0 ELSE CHOOSE m \in {r.id : r \in rows} : \A r \in rows : r.id <= m

\* The id an INTEGER PRIMARY KEY column without AUTOINCREMENT gives the next
\* row: one more than the largest id in the table.
RowIdAfterLargest(d, table, rows) == MaxIdOf(rows) + 1

\* The id an INTEGER PRIMARY KEY AUTOINCREMENT column gives the next row.
NextRowId(d, table, rows) == Max(d.seq[table], MaxIdOf(rows)) + 1

IdsOf(rows) == {r.id : r \in rows}

\* ORDER BY <key> DESC: every order of the rows that has the keys descending
\* (SQL leaves the order of rows with equal keys open).
OrderedDesc(rows, key) ==
    {s \in [1..Cardinality(rows) -> rows] :
        /\ \A i, j \in 1..Cardinality(rows) : i # j => s[i] # s[j]
        /\ \A i, j \in 1..Cardinality(rows) : i < j => s[i][key] >= s[j][key]}

\* What a handler returned (or raised): the record kept in last.  id is the
\* "id" of the result (the id an adding handler generated, the id an updating
\* handler was given; 0 where the result has none); out is the list a listing
\* handler returned.
Returned(op, user, status, id, out) ==
    [op |-> op, user |-> user, status |-> status, id |-> id, out |-> out]

NoCall == Returned("none", <<>>, "none", 0, <<>>)

\* A test that lets the amount 0 through.
NegativeOnly(x) == x < 0

\* The test "amount <= 0" of lines 235, 347, 423, 496, 657, 716 and 815.
NotPositive(x) == x <= 0

-----------------------------------------------------------------------------
(* Arithmetic and SQL aggregates *)

\* SUM(amount) over the selected rows (0 for SQL's NULL over no row, which
\* every caller replaces by 0.0).
RECURSIVE SumAmount(_)
SumAmount(rows) ==
    IF rows = {} THEN 0
    ELSE LET r == CHOOSE x \in rows : TRUE
         IN  r.amount + SumAmount(rows \ {r})

\* The quotient left as it is: num / den in hundredths, truncated.
Truncate2(num, den) == (num * 100) \div den

\* round(num / den, 2) for den > 0, in hundredths: the nearest hundredth, a
\* tie going to the even one.
round2(num, den) ==
    LET q == (num * 100) \div den
        r == (num * 100) % den
    IN  IF 2 * r > den \/ (2 * r = den /\ q % 2 = 1) THEN q + 1 ELSE q

\* The calendar of datetime.strptime(s, "%Y-%m-%d"): the days of a month.
DaysIn(year, month) ==
    IF month \in {4, 6, 9, 11} THEN 30
    ELSE IF month # 2 THEN 31
    ELSE IF year % 4 = 0 /\ (year % 100 # 0 \/ year % 400 = 0) THEN 29
    ELSE 28

YearOf(date) == date \div 10000
MonthOf(date) == (date \div 100) % 100
DayOf(date) == date % 100

\* datetime.strptime(s, "%Y-%m-%d") succeeds: the text names a day of the
\* calendar (2024-13-45, the integer 20241345, is text that names none).
IsDate(date) ==
    /\ YearOf(date) \in 1..9999
    /\ MonthOf(date) \in 1..12
    /\ DayOf(date) \in 1..DaysIn(YearOf(date), MonthOf(date))

\* The months between two dates with the years left out.
MonthsApart(start_date, end_date) == MonthOf(end_date) - MonthOf(start_date)

\* months_between(start_date, end_date), lines 173-177, for two dates that
\* strptime accepts.
months_between(start_date, end_date) ==
    (YearOf(end_date) - YearOf(start_date)) * 12
        + (MonthOf(end_date) - MonthOf(start_date))

\* A quotient num / den of two floats, kept exact.
Quotient(num, den) == [num |-> num, den |-> den]

\* a >= b for two quotients with positive denominators.
AtLeast(a, b) == a.num * b.den >= b.num * a.den

\* f"{year}-{month:02d}-01" as a date.
FirstOfMonth(year, month) == year * 10000 + month * 100 + 1

\* The same sum with the end of the range included.
SpentThrough(rows, category, start_date, end_date) ==
    SumAmount({r \in rows : r.category = category /\ r.date >= start_date
                              /\ r.date <= end_date})

\* SELECT SUM(amount) FROM expenses WHERE category = ? AND date >= ? AND date < ?
SpentBetween(rows, category, start_date, end_date) ==
    SumAmount({r \in rows : r.category = category /\ r.date >= start_date
                              /\ r.date < end_date})

-----------------------------------------------------------------------------
(* Expense tools, main.py 223-405 *)

\* An insert whose VALUES tuple has subcategory and note in each other's place.
InsertExpenseSwapped(d, date, amount, category, subcategory, note) ==
    LET id == NextRowId(d, "expenses", d.expenses)
    IN  [d EXCEPT !.expenses = @ \cup {[id |-> id, date |-> date, amount |-> amount,
                                         category |-> category,
                                         subcategory |-> note, note |-> subcategory]},
                  !.seq.expenses = id]

\* INSERT INTO expenses(date, amount, category, subcategory, note), line 242.
InsertExpense(d, date, amount, category, subcategory, note) ==
    LET id == NextRowId(d, "expenses", d.expenses)
    IN  [d EXCEPT !.expenses = @ \cup {[id |-> id, date |-> date, amount |-> amount,
                                         category |-> category,
                                         subcategory |-> subcategory, note |-> note]},
                  !.seq.expenses = id]

\* add_expense(date, amount, category, subcategory, note, user_id)
add_expense(date, amount, category, subcategory, note, user_id) ==
    LET u == resolve_user_id(user_id, CURRENT_USER_ID)
        p == get_user_db_path(u)
        v == validate_category(categories, category, subcategory)
        d == InsertExpense(init_db(db[p]), date, amount, v.category, v.subcategory, note)
    IN  IF NotPositive(amount)
        THEN /\ last' = Returned("add_expense", u, "ValueError", 0, <<>>)
             /\ UNCHANGED <<config, CURRENT_USER_ID, db>>
        ELSE IF v.raised
        THEN /\ last' = Returned("add_expense", u, "KeyError", 0, <<>>)
             /\ UNCHANGED <<config, CURRENT_USER_ID, db>>
        ELSE /\ db' = [db EXCEPT ![p] = d]
             /\ last' = Returned("add_expense", u, "ok", d.seq.expenses, <<>>)
             /\ UNCHANGED <<config, CURRENT_USER_ID>>

\* SELECT id, date, amount, category, subcategory, note FROM expenses
\* ORDER BY date DESC (line 264): the lists the query may return.
SelectExpenses(d) == OrderedDesc(d.expenses, "date")

\* list_expenses(user_id)
list_expenses(user_id) ==
    LET u == resolve_user_id(user_id, CURRENT_USER_ID)
        p == get_user_db_path(u)
    IN  /\ db' = [db EXCEPT ![p] = init_db(@)]
        /\ \E rows \in SelectExpenses(db[p]) :
               last' = Returned("list_expenses", u, "ok", 0, rows)
        /\ UNCHANGED <<config, CURRENT_USER_ID>>

\* The rows of the range with its end left out.
SelectBefore(rows, start_date, end_date) ==
    {r \in rows : r.date >= start_date /\ r.date < end_date}

\* SELECT ... WHERE date BETWEEN ? AND ?
SelectBetween(rows, start_date, end_date) ==
    {r \in rows : r.date >= start_date /\ r.date <= end_date}

\* list_expenses_by_date(start_date, end_date, user_id)
list_expenses_by_date(start_date, end_date, user_id) ==
    LET u == resolve_user_id(user_id, CURRENT_USER_ID)
        p == get_user_db_path(u)
    IN  /\ db' = [db EXCEPT ![p] = init_db(@)]
        /\ \E rows \in OrderedDesc(SelectBetween(db[p].expenses, start_date, end_date),
                                   "date") :
               last' = Returned("list_expenses_by_date", u, "ok", 0, rows)
        /\ UNCHANGED <<config, CURRENT_USER_ID>>

\* The rows of the summary with the end of the range left out.
SummaryBefore(rows, start_date, end_date, category) ==
    {[category |-> c,
      total_amount |-> SumAmount({r \in rows : r.category = c /\ r.date >= start_date
                                                /\ r.date < end_date}),
      count |-> Cardinality({r \in rows : r.category = c /\ r.date >= start_date
                                            /\ r.date < end_date})] :
        c \in {r.category : r \in {x \in rows :
                  /\ x.date >= start_date /\ x.date < end_date
                  /\ Truthy(category) => x.category = Lower(category[1])}}}

\* SELECT category, SUM(amount) as total_amount, COUNT(*) as count FROM
\* expenses WHERE date BETWEEN ? AND ? [AND category = ?] GROUP BY category
\* (lines 306-317): the filter is there "if category", on category.lower().
SummaryRows(rows, start_date, end_date, category) ==
    {[category |-> c,
      total_amount |-> SumAmount({r \in rows : r.category = c /\ r.date >= start_date
                                                /\ r.date <= end_date}),
      count |-> Cardinality({r \in rows : r.category = c /\ r.date >= start_date
                                            /\ r.date <= end_date})] :
        c \in {r.category : r \in {x \in rows :
                  /\ x.date >= start_date /\ x.date <= end_date
                  /\ Truthy(category) => x.category = Lower(category[1])}}}

\* expense_summary_by_category(start_date, end_date, category, user_id): the
\* dates are compared before the database is set up; the rows come ORDER BY
\* total_amount DESC.
expense_summary_by_category(start_date, end_date, category, user_id) ==
    LET u == resolve_user_id(user_id, CURRENT_USER_ID)
        p == get_user_db_path(u)
        d == init_db(db[p])
    IN  IF start_date > end_date
        THEN /\ last' = Returned("expense_summary_by_category", u, "ValueError", 0, <<>>)
             /\ UNCHANGED <<config, CURRENT_USER_ID, db>>
        ELSE /\ db' = [db EXCEPT ![p] = d]
             /\ \E out \in OrderedDesc(SummaryRows(d.expenses, start_date, end_date,
                                                   category), "total_amount") :
                    last' = Returned("expense_summary_by_category", u, "ok", 0, out)
             /\ UNCHANGED <<config, CURRENT_USER_ID>>

\* The rows WHERE id = ? matches.
RowsWithKey(rows, id) == {r \in rows : r.id = id}

\* The subcategory taken as given, not checked against the row's category.
SubcategoryUnchecked(cats, cur, subcategory) ==
    [raised |-> FALSE, category |-> cur.category,
     subcategory |-> Lower(Strip(OrEmpty(subcategory)))]

\* Lines 367-371: the subcategory stored by an update that names no
\* category, for the row cur read at line 363.
SubcategoryOnly(cats, cur, subcategory) ==
    validate_category(cats, Some(cur.category), subcategory)

\* The SET clause update_expense builds (lines 340-374): for each column None
\* (not in the clause) or the value to store.  hit: the rows with the id;
\* v: validate_category of the arguments (line 352); w: SubcategoryOnly of the
\* row read (line 369).
ExpenseSet(date, amount, category, subcategory, note, hit, v, w) ==
    [date |-> date, amount |-> amount,
     category |-> IF category # None THEN Some(v.category) ELSE None,
     subcategory |-> IF category # None THEN Some(v.subcategory)
                     ELSE IF subcategory # None /\ hit # {}
                          THEN Some(w.subcategory) ELSE None,
     note |-> note]

\* An update_expense that has lost the test of line 376.
OutcomeWithoutNoChanges(amount, category, subcategory, hit, v, w, set) ==
    [set |-> set,
     kind |-> IF amount # None /\ NotPositive(amount[1]) THEN "ValueError"
              ELSE IF category # None /\ v.raised THEN "KeyError"
              ELSE IF category = None /\ subcategory # None /\ hit = {} THEN "not_found"
              ELSE IF category = None /\ subcategory # None /\ w.raised THEN "KeyError"
              ELSE "write"]

\* What update_expense does before its UPDATE:
\*   kind "ValueError": line 348; "KeyError": validate_category raised;
\*   "not_found": the early return of line 366; "no_changes": line 377;
\*   "write": the UPDATE of line 382 runs with the clause set.
ExpenseOutcome(amount, category, subcategory, hit, v, w, set) ==
    [set |-> set,
     kind |-> IF amount # None /\ NotPositive(amount[1]) THEN "ValueError"
              ELSE IF category # None /\ v.raised THEN "KeyError"
              ELSE IF category = None /\ subcategory # None /\ hit = {} THEN "not_found"
              ELSE IF category = None /\ subcategory # None /\ w.raised THEN "KeyError"
              ELSE IF \A f \in DOMAIN set : set[f] = None THEN "no_changes"
              ELSE "write"]

ExpenseUpdatesOf(date, amount, category, subcategory, note, hit, v, w) ==
    ExpenseOutcome(amount, category, subcategory, hit, v, w,
                   ExpenseSet(date, amount, category, subcategory, note, hit, v, w))

ExpenseUpdates(cats, rows, expense_id, date, amount, category, subcategory, note) ==
    ExpenseUpdatesOf(date, amount, category, subcategory, note,
                     {r \in rows : r.id = expense_id},
                     validate_category(cats, category, subcategory),
                     SubcategoryOnly(cats, CHOOSE r \in rows : r.id = expense_id,
                                     subcategory))

\* One row after UPDATE ... SET <set>: a column in the clause takes its value.
ApplySet(r, set) ==
    [f \in DOMAIN r |->
        IF f \in DOMAIN set /\ set[f] # None THEN set[f][1] ELSE r[f]]

\* An UPDATE that has lost its WHERE clause.
UpdateAllRows(rows, id, set) == {ApplySet(r, set) : r \in rows}

\* UPDATE <table> SET <set> WHERE id = ?
UpdateRows(rows, id, set) ==
    {IF r.id = id THEN ApplySet(r, set) ELSE r : r \in rows}

\* update_expense(expense_id, date, amount, category, subcategory, note, user_id)
update_expense(expense_id, date, amount, category, subcategory, note, user_id) ==
    LET u == resolve_user_id(user_id, CURRENT_USER_ID)
        p == get_user_db_path(u)
    IN  \E d \in {init_db(db[p])} :
        \E x \in {ExpenseUpdates(categories, d.expenses, expense_id,
                                 date, amount, category, subcategory, note)} :
        \E rowcount \in {Cardinality({r \in d.expenses : r.id = expense_id})} :
            /\ db' = [db EXCEPT ![p] =
                        IF x.kind = "write"
                        THEN [d EXCEPT !.expenses = UpdateRows(@, expense_id, x.set)]
                        ELSE d]
            /\ last' = Returned("update_expense", u,
                                IF x.kind # "write" THEN x.kind
                                ELSE IF rowcount = 0 THEN "not_found" ELSE "ok",
                                IF x.kind \in {"ValueError", "KeyError"} THEN 0
                                ELSE expense_id, <<>>)
            /\ UNCHANGED <<config, CURRENT_USER_ID>>

\* The locals a task keeps across the awaits of update_expense: the SET
\* clause built so far.
UpdateRequest(user, expense_id, set) ==
    [op |-> "update_expense", user |-> user, expense_id |-> expense_id, set |-> set]

\* update_expense run in two steps of its task t, other tasks running in
\* between.  First step, lines 336-377: the SET clause is built; when only a
\* subcategory is given, the row's category is read on a connection of its
\* own (lines 362-367) and the subcategory validated against it.
update_expense_build(t, expense_id, date, amount, category, subcategory, note, user_id) ==
    LET u == resolve_user_id(user_id, CURRENT_USER_ID)
        p == get_user_db_path(u)
    IN  \E d \in {init_db(db[p])} :
        \E x \in {ExpenseUpdates(categories, d.expenses, expense_id,
                                 date, amount, category, subcategory, note)} :
            /\ pc[t] = "idle"
            /\ db' = [db EXCEPT ![p] = d]
            /\ IF x.kind = "write"
               THEN /\ pc' = [pc EXCEPT ![t] = "update_expense_execute"]
                    /\ req' = [req EXCEPT ![t] = UpdateRequest(u, expense_id, x.set)]
                    /\ UNCHANGED last
               ELSE /\ last' = Returned("update_expense", u, x.kind,
                                        IF x.kind \in {"ValueError", "KeyError"} THEN 0
                                        ELSE expense_id, <<>>)
                    /\ UNCHANGED <<pc, req>>
            /\ UNCHANGED <<config, CURRENT_USER_ID>>

\* The UPDATE run for the user the global names when the statement runs.
update_expense_execute_current(t) ==
    LET p == get_user_db_path(CURRENT_USER_ID)
    IN  /\ pc[t] = "update_expense_execute"
        /\ db' = [db EXCEPT ![p].expenses = UpdateRows(@, req[t].expense_id, req[t].set)]
        /\ last' = Returned("update_expense", CURRENT_USER_ID,
                            IF RowsWithKey(db[p].expenses, req[t].expense_id) = {}
                            THEN "not_found" ELSE "ok", req[t].expense_id, <<>>)
        /\ pc' = [pc EXCEPT ![t] = "idle"]
        /\ UNCHANGED <<config, CURRENT_USER_ID, req>>

\* Second step, lines 379-390: the UPDATE on a second connection, with the
\* clause built in the first step.
update_expense_execute(t) ==
    LET p == get_user_db_path(req[t].user)
    IN  /\ pc[t] = "update_expense_execute"
        /\ db' = [db EXCEPT ![p].expenses = UpdateRows(@, req[t].expense_id, req[t].set)]
        /\ last' = Returned("update_expense", req[t].user,
                            IF RowsWithKey(db[p].expenses, req[t].expense_id) = {}
                            THEN "not_found" ELSE "ok", req[t].expense_id, <<>>)
        /\ pc' = [pc EXCEPT ![t] = "idle"]
        /\ UNCHANGED <<config, CURRENT_USER_ID, req>>

\* A DELETE that also removes the rows with a smaller id.
DeleteRowsUpTo(rows, id) == {r \in rows : r.id > id}

\* DELETE FROM <table> WHERE id = ?
DeleteRows(rows, id) == {r \in rows : r.id # id}

\* delete_expense(expense_id, user_id)
delete_expense(expense_id, user_id) ==
    LET u == resolve_user_id(user_id, CURRENT_USER_ID)
        p == get_user_db_path(u)
        d == init_db(db[p])
        rowcount == Cardinality({r \in d.expenses : r.id = expense_id})
    IN  /\ db' = [db EXCEPT ![p] = [d EXCEPT !.expenses = DeleteRows(@, expense_id)]]
        /\ last' = Returned("delete_expense", u,
                            IF rowcount = 0 THEN "not_found" ELSE "ok", 0, <<>>)
        /\ UNCHANGED <<config, CURRENT_USER_ID>>

-----------------------------------------------------------------------------
(* Saving tools, main.py 412-477 *)

\* INSERT INTO savings(date, amount, source, note), line 430.
InsertSaving(d, date, amount, source, note) ==
    LET id == NextRowId(d, "savings", d.savings)
    IN  [d EXCEPT !.savings = @ \cup {[id |-> id, date |-> date, amount |-> amount,
                                       source |-> source, note |-> note]},
                  !.seq.savings = id]

\* add_saving(date, amount, source, note, user_id)
add_saving(date, amount, source, note, user_id) ==
    LET u == resolve_user_id(user_id, CURRENT_USER_ID)
        p == get_user_db_path(u)
        v == validate_saving_source(sources, source)
        d == InsertSaving(init_db(db[p]), date, amount, v.source, note)
    IN  IF NotPositive(amount)
        THEN /\ last' = Returned("add_saving", u, "ValueError", 0, <<>>)
             /\ UNCHANGED <<config, CURRENT_USER_ID, db>>
        ELSE IF v.raised
        THEN /\ last' = Returned("add_saving", u, "IndexError", 0, <<>>)
             /\ UNCHANGED <<config, CURRENT_USER_ID, db>>
        ELSE /\ db' = [db EXCEPT ![p] = d]
             /\ last' = Returned("add_saving", u, "ok", d.seq.savings, <<>>)
             /\ UNCHANGED <<config, CURRENT_USER_ID>>

\* list_savings(start_date, end_date, user_id): the range is applied "if
\* start_date and end_date" (line 452), on no row otherwise.  The two dates
\* being integers here, a date given is a truthy one.
list_savings(start_date, end_date, user_id) ==
    LET u == resolve_user_id(user_id, CURRENT_USER_ID)
        p == get_user_db_path(u)
    IN  /\ db' = [db EXCEPT ![p] = init_db(@)]
        /\ \E rows \in OrderedDesc(IF start_date # None /\ end_date # None
                                   THEN SelectBetween(db[p].savings, start_date[1],
                                                      end_date[1])
                                   ELSE db[p].savings, "date") :
               last' = Returned("list_savings", u, "ok", 0, rows)
        /\ UNCHANGED <<config, CURRENT_USER_ID>>

\* delete_saving(saving_id, user_id)
delete_saving(saving_id, user_id) ==
    LET u == resolve_user_id(user_id, CURRENT_USER_ID)
        p == get_user_db_path(u)
        d == init_db(db[p])
        rowcount == Cardinality({r \in d.savings : r.id = saving_id})
    IN  /\ db' = [db EXCEPT ![p] = [d EXCEPT !.savings = DeleteRows(@, saving_id)]]
        /\ last' = Returned("delete_saving", u,
                            IF rowcount = 0 THEN "not_found" ELSE "ok", 0, <<>>)
        /\ UNCHANGED <<config, CURRENT_USER_ID>>

-----------------------------------------------------------------------------
(* Saving goal tools, main.py 484-700 *)

\* INSERT INTO saving_goals(name, target_amount, start_date, end_date, note)
InsertGoal(d, name, target_amount, start_date, end_date, note) ==
    LET id == NextRowId(d, "saving_goals", d.saving_goals)
    IN  [d EXCEPT !.saving_goals =
                      @ \cup {[id |-> id, name |-> name, target_amount |-> target_amount,
                               start_date |-> start_date, end_date |-> end_date,
                               note |-> note]},
                  !.seq.saving_goals = id]

\* add_saving_goal(name, target_amount, start_date, end_date, note, user_id)
\* end_date is Optional: the column holds None (NULL) or Some(date).
add_saving_goal(name, target_amount, start_date, end_date, note, user_id) ==
    LET u == resolve_user_id(user_id, CURRENT_USER_ID)
        p == get_user_db_path(u)
        d == InsertGoal(init_db(db[p]), name, target_amount, start_date, end_date, note)
    IN  IF NotPositive(target_amount)
        THEN /\ last' = Returned("add_saving_goal", u, "ValueError", 0, <<>>)
             /\ UNCHANGED <<config, CURRENT_USER_ID, db>>
        ELSE /\ db' = [db EXCEPT ![p] = d]
             /\ last' = Returned("add_saving_goal", u, "ok", d.seq.saving_goals, <<>>)
             /\ UNCHANGED <<config, CURRENT_USER_ID>>

\* The SET clause update_saving_goal builds (lines 650-672).  The end_date
\* column holds an Optional, so a supplied end_date e is stored as Some(e).
GoalUpdates(name, target_amount, start_date, end_date, note) ==
    LET set == [name |-> name, target_amount |-> target_amount,
                start_date |-> start_date,
                end_date |-> IF end_date # None THEN Some(end_date) ELSE None,
                note |-> note]
    IN  IF target_amount # None /\ NotPositive(target_amount[1])
        THEN [kind |-> "ValueError", set |-> set]
        ELSE IF \A f \in DOMAIN set : set[f] = None
             THEN [kind |-> "no_changes", set |-> set]
        ELSE [kind |-> "write", set |-> set]

\* update_saving_goal(goal_id, name, target_amount, start_date, end_date, note, user_id)
update_saving_goal(goal_id, name, target_amount, start_date, end_date, note, user_id) ==
    LET u == resolve_user_id(user_id, CURRENT_USER_ID)
        p == get_user_db_path(u)
    IN  \E d \in {init_db(db[p])} :
        \E x \in {GoalUpdates(name, target_amount, start_date, end_date, note)} :
        \E rowcount \in {Cardinality({r \in d.saving_goals : r.id = goal_id})} :
            /\ db' = [db EXCEPT ![p] =
                        IF x.kind = "write"
                        THEN [d EXCEPT !.saving_goals = UpdateRows(@, goal_id, x.set)]
                        ELSE d]
            /\ last' = Returned("update_saving_goal", u,
                                IF x.kind # "write" THEN x.kind
                                ELSE IF rowcount = 0 THEN "not_found" ELSE "ok",
                                IF x.kind = "ValueError" THEN 0 ELSE goal_id, <<>>)
            /\ UNCHANGED <<config, CURRENT_USER_ID>>

\* delete_saving_goal(goal_id, user_id)
delete_saving_goal(goal_id, user_id) ==
    LET u == resolve_user_id(user_id, CURRENT_USER_ID)
        p == get_user_db_path(u)
        d == init_db(db[p])
        rowcount == Cardinality({r \in d.saving_goals : r.id = goal_id})
    IN  /\ db' = [db EXCEPT ![p] = [d EXCEPT !.saving_goals = DeleteRows(@, goal_id)]]
        /\ last' = IF rowcount = 0
                   THEN Returned("delete_saving_goal", u, "not_found", 0, <<>>)
                   ELSE Returned("delete_saving_goal", u, "ok", goal_id, <<>>)
        /\ UNCHANGED <<config, CURRENT_USER_ID>>

\* list_saving_goals(user_id)
list_saving_goals(user_id) ==
    LET u == resolve_user_id(user_id, CURRENT_USER_ID)
        p == get_user_db_path(u)
    IN  /\ db' = [db EXCEPT ![p] = init_db(@)]
        /\ \E rows \in OrderedDesc(db[p].saving_goals, "start_date") :
               last' = Returned("list_saving_goals", u, "ok", 0, rows)
        /\ UNCHANGED <<config, CURRENT_USER_ID>>

\* The rows with the id, as fetchone() sees them.
GoalWithId(d, goal_id) == {g \in d.saving_goals : g.id = goal_id}

\* SELECT SUM(amount) FROM savings WHERE date >= ? AND date <= ?, without
\* the test for a NULL end date.
SavedWithinDates(rows, start_date, end_date) ==
    SumAmount({r \in rows : r.date >= start_date
                              /\ end_date # None /\ r.date <= end_date[1]})

\* SELECT SUM(amount) FROM savings WHERE date >= ? AND (date <= ? OR ? IS NULL)
SavedWithin(rows, start_date, end_date) ==
    SumAmount({r \in rows : r.date >= start_date
                              /\ (end_date = None \/ r.date <= end_date[1])})

\* What get_saving_goal_progress returns with status ok (lines 560-568);
\* progress_percentage is in hundredths of a percent.
ProgressReport(g, total_saved) ==
    [goal_id |-> g.id, name |-> g.name, target_amount |-> g.target_amount,
     total_saved |-> total_saved,
     remaining |-> Max(g.target_amount - total_saved, 0),
     progress_percentage |-> IF g.target_amount > 0
                             THEN round2(total_saved * 100, g.target_amount)
                             ELSE 0]

\* get_saving_goal_progress(goal_id, user_id)
get_saving_goal_progress(goal_id, user_id) ==
    LET u == resolve_user_id(user_id, CURRENT_USER_ID)
        p == get_user_db_path(u)
        d == init_db(db[p])
    IN  /\ db' = [db EXCEPT ![p] = d]
        /\ IF GoalWithId(d, goal_id) = {}
           THEN last' = Returned("get_saving_goal_progress", u, "not_found", 0, <<>>)
           ELSE \E g \in GoalWithId(d, goal_id) :
                  last' = Returned("get_saving_goal_progress", u, "ok", goal_id,
                             <<ProgressReport(g, SavedWithin(d.savings, g.start_date,
                                                             g.end_date))>>)
        /\ UNCHANGED <<config, CURRENT_USER_ID>>

\* The test of line 622 with > for >=.
PaceAbove(months_remaining, remaining_amount, current_monthly_avg, required_monthly) ==
    IF months_remaining = 0 /\ remaining_amount > 0 THEN "missed_goal"
    ELSE IF ~AtLeast(required_monthly, current_monthly_avg) THEN "on_track"
    ELSE "behind"

\* The first test of line 620 without its second half.
PaceByMonths(months_remaining, remaining_amount, current_monthly_avg, required_monthly) ==
    IF months_remaining = 0 THEN "missed_goal"
    ELSE IF AtLeast(current_monthly_avg, required_monthly) THEN "on_track"
    ELSE "behind"

\* The status of lines 620-625.
Pace(months_remaining, remaining_amount, current_monthly_avg, required_monthly) ==
    IF months_remaining = 0 /\ remaining_amount > 0 THEN "missed_goal"
    ELSE IF AtLeast(current_monthly_avg, required_monthly) THEN "on_track"
    ELSE "behind"

\* Lines 606-633 of get_saving_goal_insights: the insights on a goal g with
\* an end date, total_saved being saved by today.  The two monthly amounts
\* are reported in hundredths.
Insights(g, total_saved, months_total, months_elapsed, months_remaining, remaining_amount, required_monthly, current_monthly_avg) ==
    [goal |-> g.name, target_amount |-> g.target_amount,
     total_saved |-> total_saved, months_total |-> months_total,
     months_elapsed |-> months_elapsed, months_remaining |-> months_remaining,
     required_monthly_saving |-> round2(required_monthly.num, required_monthly.den),
     current_monthly_average |-> round2(current_monthly_avg.num, current_monthly_avg.den),
     pace_status |-> Pace(months_remaining, remaining_amount, current_monthly_avg,
                          required_monthly)]

\* Lines 598-613: the locals, one after the other.
InsightsOn(g, total_saved, today) ==
    LET months_total == Max(months_between(g.start_date, g.end_date[1]), 1)
        months_elapsed == Max(months_between(g.start_date, today), 0)
        months_remaining == Max(months_total - months_elapsed, 0)
        remaining_amount == Max(g.target_amount - total_saved, 0)
    IN  Insights(g, total_saved, months_total, months_elapsed, months_remaining,
                 remaining_amount,
                 IF months_remaining > 0 THEN Quotient(remaining_amount, months_remaining)
                 ELSE Quotient(0, 1),
                 IF months_elapsed > 0 THEN Quotient(total_saved, months_elapsed)
                 ELSE Quotient(total_saved, 1))

\* get_saving_goal_insights(goal_id, user_id), today being what
\* datetime.today() gives the call.  strptime raises ValueError on a start
\* or end date that names no day.
get_saving_goal_insights(goal_id, today, user_id) ==
    LET u == resolve_user_id(user_id, CURRENT_USER_ID)
        p == get_user_db_path(u)
        d == init_db(db[p])
    IN  /\ db' = [db EXCEPT ![p] = d]
        /\ IF GoalWithId(d, goal_id) = {}
           THEN last' = Returned("get_saving_goal_insights", u, "not_found", 0, <<>>)
           ELSE \E g \in GoalWithId(d, goal_id) :
                  last' =
                    IF g.end_date = None
                    THEN Returned("get_saving_goal_insights", u, "no_deadline", 0, <<>>)
                    ELSE IF ~IsDate(g.start_date) \/ ~IsDate(g.end_date[1])
                    THEN Returned("get_saving_goal_insights", u, "ValueError", 0, <<>>)
                    ELSE Returned("get_saving_goal_insights", u, "ok", 0,
                            <<InsightsOn(g, SavedWithin(d.savings, g.start_date,
                                                        Some(today)), today)>>)
        /\ UNCHANGED <<config, CURRENT_USER_ID>>

-----------------------------------------------------------------------------
(* Budget tools, main.py 707-855 *)

\* A plain INSERT INTO budgets: a new row whatever the table holds.
AppendBudget(rows, category, monthly_limit) ==
    Append(rows, [category |-> category, monthly_limit |-> monthly_limit])

\* INSERT INTO budgets ... ON CONFLICT(category) DO UPDATE SET monthly_limit,
\* lines 722-726: the row of the category takes the limit where it is, and a
\* category that has no row gets one.
UpsertBudget(rows, category, monthly_limit) ==
    IF \E k \in 1..Len(rows) : rows[k].category = category
    THEN [k \in 1..Len(rows) |->
             IF rows[k].category = category
             THEN [rows[k] EXCEPT !.monthly_limit = monthly_limit] ELSE rows[k]]
    ELSE Append(rows, [category |-> category, monthly_limit |-> monthly_limit])

\* The locals a task keeps across the awaits of set_budget and set_current_user.
Request(op, user, category, monthly_limit) ==
    [op |-> op, user |-> user, category |-> category, monthly_limit |-> monthly_limit]

\* set_budget(category, monthly_limit, user_id) runs in three steps of its
\* task t, other tasks running in between at each await.  First step, lines
\* 714-719: the user is resolved, the limit is checked, the category normalized.
set_budget(t, category, monthly_limit, user_id) ==
    LET u == resolve_user_id(user_id, CURRENT_USER_ID)
        v == validate_category(categories, Some(category), None)
    IN  /\ pc[t] = "idle"
        /\ IF NotPositive(monthly_limit)
           THEN /\ last' = Returned("set_budget", u, "ValueError", 0, <<>>)
                /\ UNCHANGED <<pc, req>>
           ELSE IF v.raised
           THEN /\ last' = Returned("set_budget", u, "KeyError", 0, <<>>)
                /\ UNCHANGED <<pc, req>>
           ELSE /\ pc' = [pc EXCEPT ![t] = "set_budget_init_db"]
                /\ req' = [req EXCEPT ![t] = Request("set_budget", u, v.category,
                                                     monthly_limit)]
                /\ UNCHANGED last
        /\ UNCHANGED <<config, CURRENT_USER_ID, db>>

\* Second step, line 720: await init_db(user_id).
set_budget_init_db(t) ==
    /\ pc[t] = "set_budget_init_db"
    /\ db' = [db EXCEPT ![get_user_db_path(req[t].user)] = init_db(@)]
    /\ pc' = [pc EXCEPT ![t] = "set_budget_execute"]
    /\ UNCHANGED <<config, CURRENT_USER_ID, last, req>>

\* Third step, lines 722-734: the upsert and its commit, then the return.
\* SQLite lets one connection write at a time, so the statement and its commit
\* are one step.  req[t] keeps the locals of the call the task ran last.
set_budget_execute(t) ==
    /\ pc[t] = "set_budget_execute"
    /\ db' = [db EXCEPT ![get_user_db_path(req[t].user)].budgets =
                 UpsertBudget(@, req[t].category, req[t].monthly_limit)]
    /\ last' = Returned("set_budget", req[t].user, "ok", 0, <<>>)
    /\ pc' = [pc EXCEPT ![t] = "idle"]
    /\ UNCHANGED <<config, CURRENT_USER_ID, req>>

\* UPDATE budgets SET monthly_limit = ? WHERE category = ?, lines 822-826.
UpdateBudgetRows(rows, category, monthly_limit) ==
    [k \in 1..Len(rows) |->
        IF rows[k].category = category
        THEN [rows[k] EXCEPT !.monthly_limit = monthly_limit] ELSE rows[k]]

BudgetRowsOf(rows, category) == {k \in 1..Len(rows) : rows[k].category = category}

\* update_budget(category, monthly_limit, user_id)
update_budget(category, monthly_limit, user_id) ==
    LET u == resolve_user_id(user_id, CURRENT_USER_ID)
        p == get_user_db_path(u)
        v == validate_category(categories, Some(category), None)
        d == init_db(db[p])
    IN  IF NotPositive(monthly_limit)
        THEN /\ last' = Returned("update_budget", u, "ValueError", 0, <<>>)
             /\ UNCHANGED <<config, CURRENT_USER_ID, db>>
        ELSE IF v.raised
        THEN /\ last' = Returned("update_budget", u, "KeyError", 0, <<>>)
             /\ UNCHANGED <<config, CURRENT_USER_ID, db>>
        ELSE /\ db' = [db EXCEPT ![p] =
                         [d EXCEPT !.budgets = UpdateBudgetRows(@, v.category,
                                                                monthly_limit)]]
             /\ last' = Returned("update_budget", u,
                                 IF BudgetRowsOf(d.budgets, v.category) = {}
                                 THEN "not_found" ELSE "ok", 0, <<>>)
             /\ UNCHANGED <<config, CURRENT_USER_ID>>

\* DELETE FROM budgets WHERE category = ?
DeleteBudgetRows(rows, category) ==
    SelectSeq(rows, LAMBDA r : r.category # category)

\* delete_budget(category, user_id): the category is lower-cased, not stripped
\* (line 846).
delete_budget(category, user_id) ==
    LET u == resolve_user_id(user_id, CURRENT_USER_ID)
        p == get_user_db_path(u)
        d == init_db(db[p])
    IN  /\ db' = [db EXCEPT ![p] =
                    [d EXCEPT !.budgets = DeleteBudgetRows(@, Lower(category))]]
        /\ last' = Returned("delete_budget", u,
                            IF BudgetRowsOf(d.budgets, Lower(category)) = {}
                            THEN "not_found" ELSE "ok", 0, <<>>)
        /\ UNCHANGED <<config, CURRENT_USER_ID>>

\* What check_budget_status returns with status ok (lines 793-803);
\* usage_percentage is in hundredths of a percent.
BudgetReport(category, year, month, limit, total) ==
    [category |-> category, year |-> year, month |-> month,
     monthly_limit |-> limit, total_expenses |-> total,
     remaining_budget |-> limit - total,
     budget_status |-> IF total > limit THEN "over_budget" ELSE "under_budget",
     usage_percentage |-> round2(total * 100, limit)]

\* check_budget_status(category, year, month, user_id): the category is
\* lower-cased, not stripped (lines 773, 785).
check_budget_status(category, year, month, user_id) ==
    LET u == resolve_user_id(user_id, CURRENT_USER_ID)
        p == get_user_db_path(u)
        d == init_db(db[p])
        start_date == FirstOfMonth(year, month)
        end_date == IF month = 12 THEN FirstOfMonth(year + 1, 1)
                    ELSE FirstOfMonth(year, month + 1)
        budget == BudgetRowsOf(d.budgets, Lower(category))
    IN  /\ db' = [db EXCEPT ![p] = d]
        /\ \E total \in {SpentBetween(d.expenses, Lower(category), start_date, end_date)} :
             last' = IF budget = {}
                     THEN Returned("check_budget_status", u, "no_budget", 0, <<>>)
                     ELSE LET limit == d.budgets[CHOOSE k \in budget :
                                                    \A j \in budget : k <= j].monthly_limit
                          IN  IF limit = 0
                              THEN Returned("check_budget_status", u,
                                            "ZeroDivisionError", 0, <<>>)
                              ELSE Returned("check_budget_status", u, "ok", 0,
                                            <<BudgetReport(Lower(category), year, month,
                                                           limit, total)>>)
        /\ UNCHANGED <<config, CURRENT_USER_ID>>

-----------------------------------------------------------------------------
(* Writes that fail on the connection, main.py 39-52: SQLite raises         *)
(* OperationalError from a statement or from the commit (the file is        *)
(* locked, the disk is full)                                                *)

\* The SET clause with the columns outside fields taken out: what an UPDATE
\* interrupted by the failure has written on the connection.
Only(set, fields) == [f \in DOMAIN set |-> IF f \in fields THEN set[f] ELSE None]

ColumnsOf(set) == {f \in DOMAIN set : set[f] # None}

\* add_expense whose block fails: the INSERT has run on the connection, or
\* has not.
add_expense_failed(date, amount, category, subcategory, note, user_id) ==
    LET u == resolve_user_id(user_id, CURRENT_USER_ID)
        p == get_user_db_path(u)
        v == validate_category(categories, category, subcategory)
        d == init_db(db[p])
    IN  /\ ~NotPositive(amount)
        /\ ~v.raised
        /\ \E body \in {d, InsertExpense(d, date, amount, v.category, v.subcategory, note)} :
               db' = [db EXCEPT ![p] = get_db_connection(d, body, TRUE)]
        /\ last' = Returned("add_expense", u, "OperationalError", 0, <<>>)
        /\ UNCHANGED <<config, CURRENT_USER_ID>>

\* update_expense whose second block (lines 381-388) fails, with any part of
\* the UPDATE done on the connection.
update_expense_failed(expense_id, date, amount, category, subcategory, note, user_id) ==
    LET u == resolve_user_id(user_id, CURRENT_USER_ID)
        p == get_user_db_path(u)
    IN  \E d \in {init_db(db[p])} :
        \E x \in {ExpenseUpdates(categories, d.expenses, expense_id,
                                 date, amount, category, subcategory, note)} :
            /\ x.kind = "write"
            /\ \E done \in SUBSET ColumnsOf(x.set) :
                   db' = [db EXCEPT ![p] =
                            get_db_connection(d,
                                [d EXCEPT !.expenses =
                                              UpdateRows(@, expense_id, Only(x.set, done))],
                                TRUE)]
            /\ last' = Returned("update_expense", u, "OperationalError", 0, <<>>)
            /\ UNCHANGED <<config, CURRENT_USER_ID>>

\* delete_expense whose block fails: the DELETE has run on the connection,
\* or has not.
delete_expense_failed(expense_id, user_id) ==
    LET u == resolve_user_id(user_id, CURRENT_USER_ID)
        p == get_user_db_path(u)
        d == init_db(db[p])
    IN  /\ \E body \in {d, [d EXCEPT !.expenses = DeleteRows(@, expense_id)]} :
               db' = [db EXCEPT ![p] = get_db_connection(d, body, TRUE)]
        /\ last' = Returned("delete_expense", u, "OperationalError", 0, <<>>)
        /\ UNCHANGED <<config, CURRENT_USER_ID>>

\* update_saving_goal whose block (lines 676-683) fails, with any part of
\* the UPDATE done on the connection.
update_saving_goal_failed(goal_id, name, target_amount, start_date, end_date, note, user_id) ==
    LET u == resolve_user_id(user_id, CURRENT_USER_ID)
        p == get_user_db_path(u)
    IN  \E d \in {init_db(db[p])} :
        \E x \in {GoalUpdates(name, target_amount, start_date, end_date, note)} :
            /\ x.kind = "write"
            /\ \E done \in SUBSET ColumnsOf(x.set) :
                   db' = [db EXCEPT ![p] =
                            get_db_connection(d,
                                [d EXCEPT !.saving_goals =
                                              UpdateRows(@, goal_id, Only(x.set, done))],
                                TRUE)]
            /\ last' = Returned("update_saving_goal", u, "OperationalError", 0, <<>>)
            /\ UNCHANGED <<config, CURRENT_USER_ID>>

-----------------------------------------------------------------------------
(* User tools, main.py 910-941 *)

\* A CREATE TABLE that replaces a table of the name and its rows.
CreateTableAnew(d, table) ==
    [d EXCEPT !.tables = @ \cup {table},
              ![table] = IF table = "budgets" THEN <<>> ELSE {}]

\* CREATE TABLE IF NOT EXISTS <table> (lines 79-121): a table that exists
\* keeps its rows.
CreateTable(d, table) == [d EXCEPT !.tables = @ \cup {table}]

\* The four statements of init_db in their order, and where a task stands
\* before each of them.
TablesInOrder == <<"expenses", "savings", "saving_goals", "budgets">>

InitDbLabel ==
    <<"init_db_expenses", "init_db_savings", "init_db_saving_goals", "init_db_budgets">>

\* initialize_user(user_id) runs in steps of its task t, other tasks running
\* in between at each await of init_db.  First step, line 913: init_db is
\* entered for the user_id as given.
initialize_user(t, user_id) ==
    /\ pc[t] = "idle"
    /\ pc' = [pc EXCEPT ![t] = InitDbLabel[1]]
    /\ req' = [req EXCEPT ![t] = Request("initialize_user", user_id, <<>>, 0)]
    /\ UNCHANGED <<config, CURRENT_USER_ID, db, last>>

\* The k-th CREATE TABLE IF NOT EXISTS of init_db, run by task t.
init_db_create(t, k) ==
    /\ pc[t] = InitDbLabel[k]
    /\ db' = [db EXCEPT ![get_user_db_path(req[t].user)] =
                 CreateTable(@, TablesInOrder[k])]
    /\ pc' = [pc EXCEPT ![t] = IF k < Len(TablesInOrder) THEN InitDbLabel[k + 1]
                               ELSE "initialize_user_return"]
    /\ UNCHANGED <<config, CURRENT_USER_ID, last, req>>

\* Last step, lines 121-919: the commit of init_db and the return.
initialize_user_return(t) ==
    /\ pc[t] = "initialize_user_return"
    /\ last' = Returned("initialize_user", req[t].user, "ok", 0, <<>>)
    /\ pc' = [pc EXCEPT ![t] = "idle"]
    /\ UNCHANGED <<config, CURRENT_USER_ID, db, req>>

\* set_current_user(user_id) runs in two steps of its task t.  First step,
\* lines 925-926: the global is assigned.
set_current_user(t, user_id) ==
    /\ pc[t] = "idle"
    /\ CURRENT_USER_ID' = user_id
    /\ pc' = [pc EXCEPT ![t] = "set_current_user_init_db"]
    /\ req' = [req EXCEPT ![t] = Request("set_current_user", user_id, <<>>, 0)]
    /\ UNCHANGED <<config, db, last>>

\* Second step, lines 927-932: await init_db(user_id), then the return, which
\* reads the global again.
set_current_user_init_db(t) ==
    /\ pc[t] = "set_current_user_init_db"
    /\ db' = [db EXCEPT ![get_user_db_path(req[t].user)] = init_db(@)]
    /\ last' = Returned("set_current_user", CURRENT_USER_ID, "ok", 0, <<>>)
    /\ pc' = [pc EXCEPT ![t] = "idle"]
    /\ UNCHANGED <<config, CURRENT_USER_ID, req>>

-----------------------------------------------------------------------------
(* Bounds and the inputs the specifications draw *)

\* No database gives more ids than this, its tables taken together.
MaxId == 2

\* The ids a call may name: every id given so far and one never given.
CallIds == 1..(MaxId + 1)

PathOf(user_id) == get_user_db_path(resolve_user_id(user_id, CURRENT_USER_ID))

IdsGiven(d) == d.seq.expenses + d.seq.savings + d.seq.saving_goals

\* The bound MaxId, as a guard of the calls that add a row.
MayAdd(user_id) == IdsGiven(db[PathOf(user_id)]) < MaxId

Tasks == {1, 2}

\* The locals of a task that runs no handler.
NoRequest == Request("none", <<>>, <<>>, 0)

tasks == <<pc, req>>

InitLedger ==
    /\ categories = LedgerCategories
    /\ sources = LedgerSources
    /\ CURRENT_USER_ID = default_user
    /\ db = [p \in DbPaths |-> NoDatabase]
    /\ last = NoCall
    /\ pc = [t \in Tasks |-> "idle"]
    /\ req = [t \in Tasks |-> NoRequest]

-----------------------------------------------------------------------------
(* SpecExpense: one tenant, the expense tools called one after another *)

\* The add_expense calls drawn: every value of every argument occurs, valid
\* and not; <<date, amount, category, subcategory, note>>.
AddExpenseCalls ==
    { <<20240115, 1, Some(<<" ","F","o","o","d","\t">>), Some(<<"G","r","o","c","e","r","i","e","s">>), <<>>      >>,
      <<20240220, 2, Some(misc),                          None,                                         <<"n">>   >>,
      <<20240115, 2, Some(<<"f","o","d","o">>),           Some(groceries),                              <<"n">>   >>,
      <<20240220, 1, Some(food),                          Some(<<>>),                                   <<>>      >>,
      <<20240115, 0, Some(food),                          Some(groceries),                              <<"n">>   >>,
      <<20240220, -1, Some(misc),                         Some(other),                                  <<>>      >> }

AddExpense ==
    \E c \in AddExpenseCalls :
        /\ c[2] > 0 => MayAdd(None)
        /\ add_expense(c[1], c[2], c[3], c[4], c[5], None)
        /\ UNCHANGED tasks

\* The update_expense calls drawn: every subset of the five optional
\* arguments, and for amount and subcategory a second value each.
UpdateExpenseCalls ==
    {c \in [date : {None, Some(20240220)},
            amount : {None, Some(2), Some(0)},
            category : {None, Some(<<"M","i","s","c"," ">>)},
            subcategory : {None, Some(other), Some(<<"G","r","o","c","e","r","i","e","s">>)},
            note : {None, Some(<<"n">>)}] :
        c.amount = Some(0) => c.date = None /\ c.category = None /\ c.subcategory = None}

UpdateExpense ==
    \E id \in CallIds, c \in UpdateExpenseCalls :
        /\ update_expense(id, c.date, c.amount, c.category, c.subcategory, c.note, None)
        /\ UNCHANGED tasks

DeleteExpense == \E id \in CallIds : delete_expense(id, None) /\ UNCHANGED tasks

ListExpenses == list_expenses(None) /\ UNCHANGED tasks

NextExpense == AddExpense \/ UpdateExpense \/ DeleteExpense \/ ListExpenses

SpecExpense == InitLedger /\ [][NextExpense]_vars

-----------------------------------------------------------------------------
(* Spec: one tenant, the expense and the saving tools called one after    *)
(* another                                                                 *)

\* The update_expense calls of Spec: those that touch the amount or the note.
UpdateAmountCalls ==
    [date : {None}, amount : {None, Some(2), Some(0), Some(-1)}, category : {None},
     subcategory : {None}, note : {None, Some(<<"n">>)}]

UpdateAmount ==
    \E id \in CallIds, c \in UpdateAmountCalls :
        /\ update_expense(id, c.date, c.amount, c.category, c.subcategory, c.note, None)
        /\ UNCHANGED tasks

\* The add_saving calls drawn: <<date, amount, source, note>>.
AddSavingCalls ==
    { <<20240115, 1, Some(<<"S","a","l","a","r","y"," ">>), <<>>    >>,
      <<20240220, 2, Some(<<"l","o","t","t","o">>),         <<"n">> >>,
      <<20240115, 0, None,                                  <<>>    >>,
      <<20240220, -1, Some(salary),                         <<"n">> >> }

AddSaving ==
    \E c \in AddSavingCalls :
        /\ c[2] > 0 => MayAdd(None)
        /\ add_saving(c[1], c[2], c[3], c[4], None)
        /\ UNCHANGED tasks

DeleteSaving == \E id \in CallIds : delete_saving(id, None) /\ UNCHANGED tasks

Next == AddExpense \/ UpdateAmount \/ DeleteExpense \/ AddSaving \/ DeleteSaving

Spec == InitLedger /\ [][Next]_vars

-----------------------------------------------------------------------------
(* SpecNorm: the validation functions applied to raw inputs, for every    *)
(* resource file of Vocabularies and SourceLists                           *)

InitNorm ==
    /\ categories \in Vocabularies
    /\ sources \in SourceLists
    /\ CURRENT_USER_ID = default_user
    /\ db = [p \in DbPaths |-> NoDatabase]
    /\ last = NoCall
    /\ pc = [t \in Tasks |-> "idle"]
    /\ req = [t \in Tasks |-> NoRequest]

\* out: the two arguments, then the pair returned.
NormalizeCategory ==
    \E category \in RawCategories, subcategory \in RawSubcategories :
        LET v == validate_category(categories, category, subcategory)
        IN  /\ last' = Returned("validate_category", "",
                                IF v.raised THEN "KeyError" ELSE "ok", 0,
                                <<category, subcategory, v.category, v.subcategory>>)
            /\ UNCHANGED <<config, CURRENT_USER_ID, db, tasks>>

\* out: the argument, then the source returned.
NormalizeSource ==
    \E source \in RawSources :
        LET v == validate_saving_source(sources, source)
        IN  /\ last' = Returned("validate_saving_source", "",
                                IF v.raised THEN "IndexError" ELSE "ok", 0,
                                <<source, v.source>>)
            /\ UNCHANGED <<config, CURRENT_USER_ID, db, tasks>>

NextNorm == NormalizeCategory \/ NormalizeSource

SpecNorm == InitNorm /\ [][NextNorm]_vars

-----------------------------------------------------------------------------
(* SpecBudget: the budget tools, set_budget run by two tasks whose steps   *)
(* interleave                                                              *)

\* <<category, monthly_limit, user_id>>
SetBudgetCalls ==
    { <<<<"F","o","o","d"," ">>, 100, None>>,
      <<food,                    150, None>>,
      <<misc,                    100, None>>,
      <<<<"r","e","n","t">>,     150, None>>,
      <<food,                    0,   None>>,
      <<food,                    100, Some(alice)>>,
      <<<<" ","f","o","o","d">>, 150, Some(alice)>> }

SetBudget ==
    \E t \in Tasks : \E c \in SetBudgetCalls : set_budget(t, c[1], c[2], c[3])

SetBudgetInitDb == \E t \in Tasks : set_budget_init_db(t)

SetBudgetExecute == \E t \in Tasks : set_budget_execute(t)

UpdateBudgetCalls ==
    { <<food, 150, None>>, <<<<"M","i","s","c">>, 150, None>>, <<misc, -1, None>> }

UpdateBudget ==
    /\ \E c \in UpdateBudgetCalls : update_budget(c[1], c[2], c[3])
    /\ UNCHANGED tasks

\* <<category, user_id>>
DeleteBudgetCalls ==
    { <<food, None>>, <<<<"M","i","s","c">>, None>>, <<<<"f","o","o","d"," ">>, None>>,
      <<food, Some(alice)>> }

DeleteBudget ==
    /\ \E c \in DeleteBudgetCalls : delete_budget(c[1], c[2])
    /\ UNCHANGED tasks

NextBudget ==
    SetBudget \/ SetBudgetInitDb \/ SetBudgetExecute \/ UpdateBudget \/ DeleteBudget

SpecBudget == InitLedger /\ [][NextBudget]_vars

-----------------------------------------------------------------------------
(* SpecTenant: three tenants; the tools called with an explicit user_id    *)
(* and with none, set_current_user moving the global in between            *)

\* The note a caller writes into the records it adds for a tenant.
NoteOf == (default_user :> <<"d">>) @@ (alice :> <<"a">>) @@ (bob :> <<"b">>)
              @@ (bob_dir :> <<"B">>)

\* The user_id arguments drawn: none, the empty string, and three tenants.
UserArgs == {None, Some(<<>>), Some(alice), Some(bob), Some(bob_dir)}

\* The bound MaxId, for the databases taken together.
MayAddAny ==
    IdsGiven(db[get_user_db_path(default_user)]) + IdsGiven(db[get_user_db_path(alice)])
        + IdsGiven(db[get_user_db_path(bob)]) < MaxId

SetCurrentUser == \E t \in Tasks : \E u \in {alice, bob} : set_current_user(t, u)

SetCurrentUserInitDb == \E t \in Tasks : set_current_user_init_db(t)

TenantAddExpense ==
    \E a \in UserArgs :
        /\ MayAddAny
        /\ add_expense(20240115, 1, Some(food), Some(groceries),
                       NoteOf[resolve_user_id(a, CURRENT_USER_ID)], a)
        /\ UNCHANGED tasks

TenantAddSaving ==
    \E a \in UserArgs :
        /\ MayAddAny
        /\ add_saving(20240115, 1, Some(salary),
                      NoteOf[resolve_user_id(a, CURRENT_USER_ID)], a)
        /\ UNCHANGED tasks

TenantUpdateExpense ==
    \E a \in UserArgs :
        /\ update_expense(1, None, Some(2), None, None, None, a)
        /\ UNCHANGED tasks

TenantDeleteExpense ==
    \E a \in UserArgs : delete_expense(1, a) /\ UNCHANGED tasks

TenantListExpenses ==
    \E a \in UserArgs : list_expenses(a) /\ UNCHANGED tasks

NextTenant ==
    \/ SetCurrentUser \/ SetCurrentUserInitDb
    \/ TenantAddExpense \/ TenantAddSaving \/ TenantUpdateExpense
    \/ TenantDeleteExpense \/ TenantListExpenses

SpecTenant == InitLedger /\ [][NextTenant]_vars

-----------------------------------------------------------------------------
(* SpecRace: two logical users in one process, one task each; each sets    *)
(* the current user to its own id and then calls tools without a user_id   *)

\* The user each task acts for.
Owner == (1 :> alice) @@ (2 :> bob)

SessionSetUser == \E t \in Tasks : set_current_user(t, Owner[t])

SessionSetUserInitDb == \E t \in Tasks : set_current_user_init_db(t)

\* Task t has set the current user and its call has returned.
HasSetUser(t) == pc[t] = "idle" /\ req[t].op # "none"

\* add_expense without a user_id, called by t; req[t] keeps the user the call
\* was resolved to.
SessionAdd(t) ==
    /\ HasSetUser(t)
    /\ MayAddAny
    /\ add_expense(20240115, 1, Some(food), Some(groceries), NoteOf[Owner[t]], None)
    /\ req' = [req EXCEPT ![t] = Request("add_expense", last'.user, <<>>, 0)]
    /\ UNCHANGED pc

\* list_expenses without a user_id, called by t.
SessionList(t) ==
    /\ HasSetUser(t)
    /\ list_expenses(None)
    /\ req' = [req EXCEPT ![t] = Request("list_expenses", last'.user, <<>>, 0)]
    /\ UNCHANGED pc

SessionAddExpense == \E t \in Tasks : SessionAdd(t)

SessionListExpenses == \E t \in Tasks : SessionList(t)

NextRace ==
    \/ SessionSetUser \/ SessionSetUserInitDb
    \/ SessionAddExpense \/ SessionListExpenses

SpecRace == InitLedger /\ [][NextRace]_vars

-----------------------------------------------------------------------------
(* SpecUpdate: one tenant, expenses and saving goals added and then        *)
(* updated with every subset of the optional arguments                     *)

car == <<"c","a","r">>
trip == <<"t","r","i","p">>

UpdateAddExpense ==
    /\ MayAdd(None)
    /\ add_expense(20240115, 1, Some(food), Some(groceries), <<>>, None)
    /\ UNCHANGED tasks

UpdateAddGoal ==
    /\ MayAdd(None)
    /\ add_saving_goal(car, 10, 20240101, None, <<>>, None)
    /\ UNCHANGED tasks

\* The update calls are drawn at the start and after an add, not after
\* another update: this bounds the runs, not the handlers.
UpdateDrawn == last.op \notin {"update_expense", "update_saving_goal"}

\* Every subset of the five optional arguments of update_expense, one value
\* each, and a call with a non-positive amount.
FieldExpenseCalls ==
    [date : {None, Some(20240220)}, amount : {None, Some(2)},
     category : {None, Some(<<"M","i","s","c"," ">>)},
     subcategory : {None, Some(<<"O","t","h","e","r">>)},
     note : {None, Some(<<"n">>)}]
    \cup [date : {None}, amount : {Some(0)}, category : {None}, subcategory : {None},
          note : {None, Some(<<"n">>)}]

FieldUpdateExpense ==
    \E id \in CallIds, c \in FieldExpenseCalls :
        /\ UpdateDrawn
        /\ update_expense(id, c.date, c.amount, c.category, c.subcategory, c.note, None)
        /\ UNCHANGED tasks

\* Every subset of the five optional arguments of update_saving_goal, and a
\* call with a non-positive target.
FieldGoalCalls ==
    [name : {None, Some(trip)}, target_amount : {None, Some(20)},
     start_date : {None, Some(20240201)}, end_date : {None, Some(20241231)},
     note : {None, Some(<<"n">>)}]
    \cup [name : {None}, target_amount : {Some(0)}, start_date : {None},
          end_date : {None}, note : {None, Some(<<"n">>)}]

FieldUpdateGoal ==
    \E id \in CallIds, c \in FieldGoalCalls :
        /\ UpdateDrawn
        /\ update_saving_goal(id, c.name, c.target_amount, c.start_date, c.end_date,
                              c.note, None)
        /\ UNCHANGED tasks

NextUpdate == UpdateAddExpense \/ UpdateAddGoal \/ FieldUpdateExpense \/ FieldUpdateGoal

SpecUpdate == InitLedger /\ [][NextUpdate]_vars

-----------------------------------------------------------------------------
(* SpecRecategorize: one tenant, a resource file in which two categories   *)
(* share a subcategory; expenses added and moved between the categories    *)

home == <<"h","o","m","e">>

\* A resource file where groceries is a subcategory of food and of home.
SharedCategories ==
    (food :> <<groceries, dining, other>>) @@ (home :> <<groceries, other>>)
        @@ (misc :> <<other>>)

InitShared ==
    /\ categories = SharedCategories
    /\ sources = LedgerSources
    /\ CURRENT_USER_ID = default_user
    /\ db = [p \in DbPaths |-> NoDatabase]
    /\ last = NoCall
    /\ pc = [t \in Tasks |-> "idle"]
    /\ req = [t \in Tasks |-> NoRequest]

\* <<date, amount, category, subcategory, note>>
SharedAddCalls ==
    { <<20240115, 1, Some(food), Some(groceries), <<>> >>,
      <<20240220, 2, Some(food), Some(dining),    <<>> >>,
      <<20240115, 2, Some(misc), None,            <<>> >> }

SharedAddExpense ==
    \E c \in SharedAddCalls :
        /\ MayAdd(None)
        /\ add_expense(c[1], c[2], c[3], c[4], c[5], None)
        /\ UNCHANGED tasks

\* The update_expense calls that supply a category, with and without a
\* subcategory.
RecategorizeCalls ==
    [date : {None}, amount : {None, Some(3)},
     category : {Some(<<"H","o","m","e">>), Some(food), Some(<<"z","z">>)},
     subcategory : {None, Some(<<" ","G","r","o","c","e","r","i","e","s">>), Some(dining)},
     note : {None}]

Recategorize ==
    \E id \in CallIds, c \in RecategorizeCalls :
        /\ update_expense(id, c.date, c.amount, c.category, c.subcategory, c.note, None)
        /\ UNCHANGED tasks

NextRecategorize == SharedAddExpense \/ Recategorize

SpecRecategorize == InitShared /\ [][NextRecategorize]_vars

-----------------------------------------------------------------------------
(* SpecDelete: one tenant; a row of each table added and the four delete   *)
(* tools called with keys that match a row and keys that match none        *)

DeleteAddExpense ==
    /\ MayAdd(None)
    /\ add_expense(20240115, 1, Some(food), Some(groceries), <<>>, None)
    /\ UNCHANGED tasks

DeleteAddSaving ==
    /\ MayAdd(None)
    /\ add_saving(20240115, 1, Some(salary), <<>>, None)
    /\ UNCHANGED tasks

DeleteAddGoal ==
    /\ MayAdd(None)
    /\ add_saving_goal(car, 100, 20240101, None, <<>>, None)
    /\ UNCHANGED tasks

\* <<category, monthly_limit>>
DeleteSetBudgetCalls == { <<food, 100>>, <<misc, 150>> }

DeleteSetBudget ==
    \E t \in Tasks : \E c \in DeleteSetBudgetCalls : set_budget(t, c[1], c[2], None)

DeleteGoal == \E id \in CallIds : delete_saving_goal(id, None) /\ UNCHANGED tasks

DeleteBudgetKeys == { food, <<"M","i","s","c">>, <<"f","o","o","d"," ">> }

DeleteBudgetKey ==
    \E c \in DeleteBudgetKeys : delete_budget(c, None) /\ UNCHANGED tasks

NextDelete ==
    \/ DeleteAddExpense \/ DeleteAddSaving \/ DeleteAddGoal
    \/ DeleteSetBudget \/ SetBudgetInitDb \/ SetBudgetExecute
    \/ DeleteExpense \/ DeleteSaving \/ DeleteGoal \/ DeleteBudgetKey

SpecDelete == InitLedger /\ [][NextDelete]_vars

-----------------------------------------------------------------------------
(* SpecStatus: one tenant; expenses dated around the ends of a month, a    *)
(* budget set and changed, and the budget status asked for                 *)

StatusDates == {20240301, 20240331, 20240401, 20241231, 20250101}

\* <<date, amount, category>>
StatusAddCalls ==
    (StatusDates \X {500, 530, 30} \X {food}) \cup {<<20240331, 30, misc>>}

StatusAddExpense ==
    \E c \in StatusAddCalls :
        /\ MayAdd(None)
        /\ add_expense(c[1], c[2], Some(c[3]), None, <<>>, None)
        /\ UNCHANGED tasks

\* <<category, monthly_limit>>
StatusBudgetCalls == { <<food, 500>>, <<food, 300>> }

StatusSetBudget ==
    \E c \in StatusBudgetCalls : set_budget(1, c[1], c[2], None)

\* <<category, year, month>>
StatusCalls ==
    {food, <<"F","o","o","d">>, misc} \X {<<2024, 3>>, <<2024, 12>>}

CheckBudgetStatus ==
    \E c \in StatusCalls :
        /\ check_budget_status(c[1], c[2][1], c[2][2], None)
        /\ UNCHANGED tasks

NextStatus ==
    \/ StatusAddExpense \/ StatusSetBudget \/ SetBudgetInitDb \/ SetBudgetExecute
    \/ CheckBudgetStatus

SpecStatus == InitLedger /\ [][NextStatus]_vars

-----------------------------------------------------------------------------
(* SpecGoal: one tenant; saving goals with and without an end date,        *)
(* savings dated before, within and after them, and the progress and the   *)
(* insights asked for on several days                                      *)

MaxGoals == 1

\* <<name, target_amount, start_date, end_date>>
GoalAddCalls ==
    { <<car,  1200, 20240101, Some(20241231)>>,
      <<trip, 300,  20240101, Some(20240401)>>,
      <<trip, 300,  20240115, None>> }

GoalAddGoal ==
    \E c \in GoalAddCalls :
        /\ db[PathOf(None)].seq.saving_goals < MaxGoals
        /\ add_saving_goal(c[1], c[2], c[3], c[4], <<>>, None)
        /\ UNCHANGED tasks

\* <<date, amount>>
GoalSavingCalls ==
    {20231231, 20240115, 20240215, 20240402} \X {100, 200}

GoalAddSaving ==
    \E c \in GoalSavingCalls :
        /\ db[PathOf(None)].seq.savings < MaxId
        /\ add_saving(c[1], c[2], Some(salary), <<>>, None)
        /\ UNCHANGED tasks

GoalIds == 1..(MaxGoals + 1)

GoalProgress ==
    \E id \in GoalIds : get_saving_goal_progress(id, None) /\ UNCHANGED tasks

\* What datetime.today() gives the calls.
Todays == {20231215, 20240201, 20240301, 20250115}

GoalInsights ==
    \E id \in GoalIds, today \in Todays :
        get_saving_goal_insights(id, today, None) /\ UNCHANGED tasks

NextGoal == GoalAddGoal \/ GoalAddSaving \/ GoalProgress \/ GoalInsights

SpecGoal == InitLedger /\ [][NextGoal]_vars

-----------------------------------------------------------------------------
(* SpecSummary: one tenant; expenses of two categories dated in and around *)
(* a range, and the summary by category asked for                          *)

\* <<date, amount, category>>
SummaryAddCalls == {20240115, 20240131, 20240201} \X {1, 2} \X {food, misc}

SummaryAddExpense ==
    \E c \in SummaryAddCalls :
        /\ MayAdd(None)
        /\ add_expense(c[1], c[2], Some(c[3]), None, <<>>, None)
        /\ UNCHANGED tasks

\* <<start_date, end_date, category>>
SummaryCalls ==
    {<<20240115, 20240131>>, <<20240131, 20240201>>, <<20240131, 20240115>>}
        \X {None, Some(<<>>), Some(<<"F","o","o","d">>), Some(misc)}

ExpenseSummary ==
    \E c \in SummaryCalls :
        /\ expense_summary_by_category(c[1][1], c[1][2], c[2], None)
        /\ UNCHANGED tasks

NextSummary == SummaryAddExpense \/ ExpenseSummary

SpecSummary == InitLedger /\ [][NextSummary]_vars

-----------------------------------------------------------------------------
(* SpecDates: one tenant; the five tools that write a date, called with    *)
(* dates of the calendar and with text that names no day                   *)

\* 2024-01-15, and the malformed 2024-13-45 and 2024-02-30.
WrittenDates == {20240115, 20241345, 20240230}

DatesAddExpense ==
    \E date \in WrittenDates :
        /\ MayAdd(None)
        /\ add_expense(date, 1, Some(food), Some(groceries), <<>>, None)
        /\ UNCHANGED tasks

DatesAddSaving ==
    \E date \in WrittenDates :
        /\ MayAdd(None)
        /\ add_saving(date, 1, Some(salary), <<>>, None)
        /\ UNCHANGED tasks

DatesAddGoal ==
    \E start_date \in WrittenDates, end_date \in {None, Some(20241345)} :
        /\ MayAdd(None)
        /\ add_saving_goal(car, 100, start_date, end_date, <<>>, None)
        /\ UNCHANGED tasks

DatesUpdateExpense ==
    \E id \in CallIds, date \in WrittenDates :
        /\ update_expense(id, Some(date), None, None, None, None, None)
        /\ UNCHANGED tasks

DatesUpdateGoal ==
    \E id \in CallIds, date \in WrittenDates :
        /\ \/ update_saving_goal(id, None, None, Some(date), None, None, None)
           \/ update_saving_goal(id, None, None, None, Some(date), None, None)
        /\ UNCHANGED tasks

NextDates ==
    \/ DatesAddExpense \/ DatesAddSaving \/ DatesAddGoal
    \/ DatesUpdateExpense \/ DatesUpdateGoal

SpecDates == InitLedger /\ [][NextDates]_vars

-----------------------------------------------------------------------------
(* SpecTransaction: one tenant; expenses and goals added, updated with     *)
(* several fields at once and deleted, each write completing or failing    *)
(* on its connection                                                       *)

TxAddExpense ==
    \E failed \in BOOLEAN :
        /\ MayAdd(None)
        /\ IF failed
           THEN add_expense_failed(20240115, 1, Some(food), Some(groceries), <<>>, None)
           ELSE add_expense(20240115, 1, Some(food), Some(groceries), <<>>, None)
        /\ UNCHANGED tasks

TxAddGoal ==
    /\ MayAdd(None)
    /\ add_saving_goal(car, 10, 20240101, None, <<>>, None)
    /\ UNCHANGED tasks

TxExpenseCalls ==
    [date : {None, Some(20240220)}, amount : {None, Some(3)},
     category : {None, Some(misc)}, subcategory : {None}, note : {None}]
    \cup [date : {Some(20240220)}, amount : {Some(0)}, category : {None},
          subcategory : {None}, note : {Some(<<"n">>)}]

\* The update calls are drawn at the start and after an add or a delete, not
\* after another update: this bounds the runs, not the handlers.
TxUpdateExpense ==
    \E id \in CallIds, c \in TxExpenseCalls, failed \in BOOLEAN :
        /\ UpdateDrawn
        /\ IF failed
           THEN update_expense_failed(id, c.date, c.amount, c.category, c.subcategory,
                                      c.note, None)
           ELSE update_expense(id, c.date, c.amount, c.category, c.subcategory,
                               c.note, None)
        /\ UNCHANGED tasks

TxGoalCalls ==
    [name : {None, Some(trip)}, target_amount : {None, Some(20)},
     start_date : {None}, end_date : {None, Some(20241231)}, note : {None}]

TxUpdateGoal ==
    \E id \in CallIds, c \in TxGoalCalls, failed \in BOOLEAN :
        /\ UpdateDrawn
        /\ IF failed
           THEN update_saving_goal_failed(id, c.name, c.target_amount, c.start_date,
                                          c.end_date, c.note, None)
           ELSE update_saving_goal(id, c.name, c.target_amount, c.start_date,
                                   c.end_date, c.note, None)
        /\ UNCHANGED tasks

TxDeleteExpense ==
    \E id \in CallIds, failed \in BOOLEAN :
        /\ IF failed THEN delete_expense_failed(id, None) ELSE delete_expense(id, None)
        /\ UNCHANGED tasks

NextTransaction ==
    TxAddExpense \/ TxAddGoal \/ TxUpdateExpense \/ TxUpdateGoal \/ TxDeleteExpense

SpecTransaction == InitLedger /\ [][NextTransaction]_vars

-----------------------------------------------------------------------------
(* SpecProvision: two tasks that run initialize_user, for one tenant or    *)
(* for two, one CREATE TABLE at a time, while records are added            *)

ProvisionedUsers == {default_user, alice}

InitializeUser ==
    \E t \in Tasks, u \in ProvisionedUsers : initialize_user(t, u)

InitDbCreate ==
    \E t \in Tasks, k \in 1..Len(TablesInOrder) : init_db_create(t, k)

InitializeUserReturn == \E t \in Tasks : initialize_user_return(t)

ProvisionAddExpense ==
    /\ MayAdd(None)
    /\ add_expense(20240115, 1, Some(food), Some(groceries), <<>>, None)
    /\ UNCHANGED tasks

ProvisionAddGoal ==
    /\ MayAdd(Some(alice))
    /\ add_saving_goal(car, 100, 20240101, None, <<>>, Some(alice))
    /\ UNCHANGED tasks

NextProvision ==
    \/ InitializeUser \/ InitDbCreate \/ InitializeUserReturn
    \/ ProvisionAddExpense \/ ProvisionAddGoal

SpecProvision == InitLedger /\ [][NextProvision]_vars

-----------------------------------------------------------------------------
(* SpecList: one tenant; expenses, savings and goals of several dates, and *)
(* the four lists asked for, with and without a range                      *)

ListDates == {20240115, 20240131, 20240201}

ListAddExpense ==
    \E date \in ListDates :
        /\ MayAdd(None)
        /\ add_expense(date, 1, Some(food), Some(groceries), <<>>, None)
        /\ UNCHANGED tasks

ListAddSaving ==
    \E date \in ListDates :
        /\ MayAdd(None)
        /\ add_saving(date, 1, Some(salary), <<>>, None)
        /\ UNCHANGED tasks

ListAddGoal ==
    \E date \in ListDates :
        /\ MayAdd(None)
        /\ add_saving_goal(car, 100, date, None, <<>>, None)
        /\ UNCHANGED tasks

\* <<start_date, end_date>>
ListRanges ==
    {<<20240115, 20240131>>, <<20240131, 20240131>>, <<20240201, 20240115>>}

\* The ranges of list_savings: both dates, none, or one of the two.
ListSavingRanges ==
    {<<Some(c[1]), Some(c[2])>> : c \in ListRanges}
        \cup {<<None, None>>, <<Some(20240131), None>>, <<None, Some(20240131)>>}

ListAll == list_expenses(None) /\ UNCHANGED tasks

ListExpensesByDate ==
    \E c \in ListRanges : list_expenses_by_date(c[1], c[2], None) /\ UNCHANGED tasks

ListSavings ==
    \E c \in ListSavingRanges : list_savings(c[1], c[2], None) /\ UNCHANGED tasks

ListSavingGoals == list_saving_goals(None) /\ UNCHANGED tasks

NextList ==
    \/ ListAddExpense \/ ListAddSaving \/ ListAddGoal
    \/ ListAll \/ ListExpensesByDate \/ ListSavings \/ ListSavingGoals

SpecList == InitLedger /\ [][NextList]_vars

-----------------------------------------------------------------------------
(* SpecConcurrentUpdate: one tenant, one expense, and two tasks that each  *)
(* run update_expense on it, the steps of the two calls interleaving       *)

ConcurrentAddExpense ==
    /\ db[PathOf(None)].seq.expenses < 1
    /\ add_expense(20240115, 1, Some(food), Some(groceries), <<>>, None)
    /\ UNCHANGED tasks

\* <<category, subcategory>>: a new category, or a subcategory only.
ConcurrentCalls ==
    { <<Some(misc), None>>, <<Some(food), None>>,
      <<None, Some(groceries)>>, <<None, Some(other)>> }

ConcurrentUpdateBuild ==
    \E t \in Tasks, c \in ConcurrentCalls :
        update_expense_build(t, 1, None, None, c[1], c[2], None, None)

ConcurrentUpdateExecute == \E t \in Tasks : update_expense_execute(t)

NextConcurrentUpdate ==
    ConcurrentAddExpense \/ ConcurrentUpdateBuild \/ ConcurrentUpdateExecute

SpecConcurrentUpdate == InitLedger /\ [][NextConcurrentUpdate]_vars

-----------------------------------------------------------------------------
(* SpecSwitch: two tenants with one expense each; two tasks run            *)
(* update_expense step by step, with and without a user_id, the first      *)
(* set_budget also, while the second switches the current user             *)

SwitchAddExpense ==
    \E u \in {alice, bob} :
        /\ db[get_user_db_path(u)].seq.expenses < 1
        /\ add_expense(20240115, 1, Some(food), Some(groceries), <<>>, Some(u))
        /\ UNCHANGED tasks

SwitchSetUser == \E u \in {alice, bob} : set_current_user(2, u)

SwitchSetUserInitDb == set_current_user_init_db(2)

\* The user_id of a call: none, or a user.
SwitchUserIds == {None, Some(alice), Some(bob)}

\* <<category, subcategory>> of an update.
SwitchCalls == { <<None, Some(other)>> }

SwitchUpdateBuild ==
    \E t \in Tasks, c \in SwitchCalls, user_id \in SwitchUserIds :
        update_expense_build(t, 1, None, None, c[1], c[2], None, user_id)

SwitchUpdateExecute == \E t \in Tasks : update_expense_execute(t)

SwitchSetBudget == \E user_id \in SwitchUserIds : set_budget(1, food, 100, user_id)

SwitchSetBudgetInitDb == set_budget_init_db(1)

SwitchSetBudgetExecute == set_budget_execute(1)

NextSwitch ==
    \/ SwitchAddExpense \/ SwitchSetUser \/ SwitchSetUserInitDb
    \/ SwitchUpdateBuild \/ SwitchUpdateExecute
    \/ SwitchSetBudget \/ SwitchSetBudgetInitDb \/ SwitchSetBudgetExecute

SpecSwitch == InitLedger /\ [][NextSwitch]_vars

-----------------------------------------------------------------------------
(* SpecBudgetKey: one tenant; a budget is set, asked for and deleted with  *)
(* one and the same raw category string                                    *)

\* Raw category strings: lower case, capitalized, padded, and a name outside
\* the vocabulary.
BudgetKeys ==
    { food, <<"F","o","o","d">>, <<" ","f","o","o","d"," ">>, <<"r","e","n","t">> }

BudgetKeyLimits == {100, 150}

BudgetKeySet ==
    \E c \in BudgetKeys, l \in BudgetKeyLimits : set_budget(1, c, l, None)

BudgetKeyCheck ==
    \E c \in BudgetKeys :
        /\ check_budget_status(c, 2024, 3, None)
        /\ UNCHANGED tasks

BudgetKeyDelete ==
    \E c \in BudgetKeys :
        /\ delete_budget(c, None)
        /\ UNCHANGED tasks

NextBudgetKey ==
    \/ BudgetKeySet \/ SetBudgetInitDb \/ SetBudgetExecute
    \/ BudgetKeyCheck \/ BudgetKeyDelete

SpecBudgetKey == InitLedger /\ [][NextBudgetKey]_vars

-----------------------------------------------------------------------------
(* SpecPositive: one tenant; budgets and saving goals set and updated with *)
(* positive, zero and negative amounts, and the two tools that divide by   *)
(* them                                                                    *)

PositiveLimits == {-1, 0, 100, 150}

PositiveTargets == {-1, 0, 200, 300}

PositiveSetBudget == \E l \in PositiveLimits : set_budget(1, food, l, None)

PositiveUpdateBudget ==
    \E l \in PositiveLimits : update_budget(food, l, None) /\ UNCHANGED tasks

PositiveDeleteBudget == delete_budget(food, None) /\ UNCHANGED tasks

PositiveAddGoal ==
    \E target \in PositiveTargets :
        /\ db[PathOf(None)].seq.saving_goals < MaxGoals
        /\ add_saving_goal(trip, target, 20240101, Some(20240401), <<>>, None)
        /\ UNCHANGED tasks

PositiveUpdateGoal ==
    \E target \in PositiveTargets :
        /\ update_saving_goal(1, None, Some(target), None, None, None, None)
        /\ UNCHANGED tasks

PositiveAddSaving ==
    /\ db[PathOf(None)].seq.savings < 1
    /\ add_saving(20240215, 100, Some(salary), <<>>, None)
    /\ UNCHANGED tasks

PositiveCheck == check_budget_status(food, 2024, 3, None) /\ UNCHANGED tasks

PositiveProgress == get_saving_goal_progress(1, None) /\ UNCHANGED tasks

NextPositive ==
    \/ PositiveSetBudget \/ SetBudgetInitDb \/ SetBudgetExecute
    \/ PositiveUpdateBudget \/ PositiveDeleteBudget
    \/ PositiveAddGoal \/ PositiveUpdateGoal \/ PositiveAddSaving
    \/ PositiveCheck \/ PositiveProgress

SpecPositive == InitLedger /\ [][NextPositive]_vars

-----------------------------------------------------------------------------
(* SpecDeadline: one tenant, saving goals and savings as in SpecGoal, the  *)
(* insights asked for on days around the end date of a goal                *)

\* What datetime.today() gives the calls: the days before, of and after the
\* end date 2024-04-01, a day late in the month of the end date 2024-12-31,
\* and a day after both.
DeadlineTodays == {20240331, 20240401, 20240402, 20241201, 20250101}

DeadlineInsights ==
    \E id \in GoalIds, today \in DeadlineTodays :
        get_saving_goal_insights(id, today, None) /\ UNCHANGED tasks

NextDeadline == GoalAddGoal \/ GoalAddSaving \/ DeadlineInsights

SpecDeadline == InitLedger /\ [][NextDeadline]_vars

-----------------------------------------------------------------------------
(* SpecIds: one tenant; expenses, savings and saving goals added, updated  *)
(* and deleted, in any order                                               *)

IdsUpdateExpense ==
    \E id \in CallIds :
        /\ update_expense(id, None, Some(3), None, None, None, None)
        /\ UNCHANGED tasks

IdsUpdateGoal ==
    \E id \in CallIds :
        /\ update_saving_goal(id, None, Some(200), None, None, None, None)
        /\ UNCHANGED tasks

NextIds ==
    \/ DeleteAddExpense \/ DeleteAddSaving \/ DeleteAddGoal
    \/ IdsUpdateExpense \/ IdsUpdateGoal
    \/ DeleteExpense \/ DeleteSaving \/ DeleteGoal

SpecIds == InitLedger /\ [][NextIds]_vars

-----------------------------------------------------------------------------
(* Properties *)

Databases == {db[p] : p \in DbPaths}

\* C1: whatever the raw input (valid, empty, None, upper case, padded,
\* garbage), validate_category returns without raising a pair whose category
\* is a key of the vocabulary and whose subcategory is in that key's list,
\* and validate_saving_source returns without raising a member of the list
\* of sources.
C1_NormalizerReturnsVocabulary ==
    /\ last.op = "validate_category" =>
          /\ last.status = "ok"
          /\ last.out[3] \in DOMAIN categories
          /\ InList(last.out[4], categories[last.out[3]])
    /\ last.op = "validate_saving_source" =>
          /\ last.status = "ok"
          /\ InList(last.out[2], sources)

\* Garbage in both arguments, with a file that has no "other": the pair
\* returned is misc and the first subcategory of misc.
C1_Witness ==
    /\ last.op = "validate_category"
    /\ last.out[1] = Some(<<"f","o","d","o">>)
    /\ last.out[2] = Some(<<"x","y","z">>)
    /\ categories = VocabNoOther
    /\ last.out[3] = misc
    /\ last.out[4] = general

\* C2: in every reachable state, after any sequence of add_expense,
\* update_expense, delete_expense, add_saving and delete_saving calls that
\* succeed or fail, every expense and every saving of every tenant has
\* amount > 0.
C2_AmountsPositive ==
    \A d \in Databases :
        /\ \A r \in d.expenses : r.amount > 0
        /\ \A r \in d.savings : r.amount > 0

\* A call has just been refused for its amount while an expense and a saving
\* are stored.
C2_Witness ==
    /\ last.status = "ValueError"
    /\ \E d \in Databases : d.expenses # {} /\ d.savings # {}

\* C3: add_expense and add_saving called with an amount <= 0 end in
\* ValueError and leave every collection as it was: no row is stored.
C3_RejectedAddStoresNothing ==
    [][/\ \A c \in AddExpenseCalls :
             (/\ last'.op = "add_expense"
              /\ c[2] <= 0
              /\ add_expense(c[1], c[2], c[3], c[4], c[5], None))
                 => last'.status = "ValueError" /\ db' = db
       /\ \A c \in AddSavingCalls :
             (/\ last'.op = "add_saving"
              /\ c[2] <= 0
              /\ add_saving(c[1], c[2], c[3], c[4], None))
                 => last'.status = "ValueError" /\ db' = db]_vars

\* add_saving has just been refused while rows are stored.
C3_Witness ==
    /\ last.op = "add_saving"
    /\ last.status = "ValueError"
    /\ \E d \in Databases : d.expenses # {} /\ d.savings # {}

JointlyValid(r) ==
    /\ r.category \in DOMAIN categories
    /\ InList(r.subcategory, categories[r.category])

\* C4: with a fixed vocabulary, after any series of add_expense and
\* update_expense calls supplying any combination of fields, every stored
\* expense has a category that is a key of the vocabulary and a subcategory
\* in that same key's list.
C4_PairsJointlyValid ==
    \A d \in Databases : \A r \in d.expenses : JointlyValid(r)

\* An update naming only the subcategory groceries has just run on an
\* expense of category misc, which does not have it: the pair is misc/other.
C4_Witness ==
    /\ last.op = "update_expense"
    /\ last.status = "ok"
    /\ \E d \in Databases : \E r \in d.expenses :
           r.category = misc /\ r.subcategory = other /\ r.date = 20240115
              /\ r.note = <<>>

\* C7: after add_expense(d, amt, cat, sub, note) with amt > 0 returns id i,
\* every list list_expenses may return holds exactly one record with id i,
\* with date d, amount amt, the pair of validate_category(cat, sub) and note;
\* every record present before is still present, unchanged, and i is the id
\* of none of them.
C7_AddThenList ==
    [][\A c \in AddExpenseCalls :
          (/\ last'.op = "add_expense"
           /\ c[2] > 0
           /\ add_expense(c[1], c[2], c[3], c[4], c[5], None)) =>
             LET p == PathOf(None)
                 v == validate_category(categories, c[3], c[4])
                 i == last'.id
                 row == [id |-> i, date |-> c[1], amount |-> c[2],
                         category |-> v.category, subcategory |-> v.subcategory,
                         note |-> c[5]]
             IN  /\ last'.status = "ok"
                 /\ i \notin IdsOf(db[p].expenses)
                 /\ \A l \in SelectExpenses(db'[p]) :
                       /\ Cardinality({k \in 1..Len(l) : l[k].id = i}) = 1
                       /\ \E k \in 1..Len(l) : l[k] = row
                       /\ \A r \in db[p].expenses : \E k \in 1..Len(l) : l[k] = r]_vars

\* An expense has been added after the expense with id 1 was deleted: the new
\* one has id 2 and is the only one stored.
C7_Witness ==
    /\ last.op = "add_expense"
    /\ last.status = "ok"
    /\ last.id = 2
    /\ IdsOf(db[PathOf(None)].expenses) = {2}

\* The budget rows of a category.
BudgetsOf(d, category) == BudgetRowsOf(d.budgets, category)

\* C5: in every reachable state no database holds two budget rows of one
\* category, also while set_budget calls for one category interleave; and
\* the write of a set_budget(cat, l) call leaves exactly one row for cat, with
\* monthly_limit l: where a row for cat stood it stands in the same place and
\* the table is no longer, and every other row is as it was.
C5_OneBudgetPerCategory ==
    /\ [](\A d \in Databases : \A i, j \in 1..Len(d.budgets) :
              d.budgets[i].category = d.budgets[j].category => i = j)
    /\ [][\A t \in Tasks : set_budget_execute(t) =>
              LET p == get_user_db_path(req[t].user)
                  old == db[p].budgets
                  new == db'[p].budgets
                  cat == req[t].category
              IN  /\ Cardinality(BudgetsOf(db'[p], cat)) = 1
                  /\ \A k \in BudgetsOf(db'[p], cat) :
                        new[k].monthly_limit = req[t].monthly_limit
                  /\ BudgetsOf(db[p], cat) # {} =>
                        Len(new) = Len(old) /\ BudgetsOf(db'[p], cat) = BudgetsOf(db[p], cat)
                  /\ \A k \in 1..Len(old) :
                        old[k].category # cat => new[k] = old[k]]_vars

\* Two set_budget calls for food of one tenant are under way together: one
\* has written its limit 100 and returned, the other, holding limit 150, has
\* run its init_db and has its write still to do.
C5_Witness ==
    /\ last = Returned("set_budget", default_user, "ok", 0, <<>>)
    /\ \E t, o \in Tasks :
          /\ pc[t] = "idle"
          /\ req[t] = Request("set_budget", default_user, food, 100)
          /\ pc[o] = "set_budget_execute"
          /\ req[o] = Request("set_budget", default_user, food, 150)
    /\ db[PathOf(None)].budgets = <<[category |-> food, monthly_limit |-> 100]>>

\* Task t takes a step of set_budget or of set_current_user.
Stepping(t) == pc'[t] # pc[t] /\ pc[t] # "idle"

\* C6: a step of an operation executed for tenant A, given as user_id or
\* resolved from the global, leaves the database (expenses, savings, saving
\* goals and budgets) of every other tenant B as it was; and every record a
\* read for tenant A returns was written for A.
C6_TenantIsolation ==
    [][/\ \A t \in Tasks : Stepping(t) =>
             \A B \in UserIds \ {req[t].user} :
                 db'[get_user_db_path(B)] = db[get_user_db_path(B)]
       /\ pc' = pc =>
             \A B \in UserIds \ {last'.user} :
                 db'[get_user_db_path(B)] = db[get_user_db_path(B)]
       /\ pc' = pc /\ last'.op = "list_expenses" =>
             \A k \in 1..Len(last'.out) : last'.out[k].note = NoteOf[last'.user]]_vars

\* C8: a tool called without a user_id by a task that has set the current
\* user to its own id is resolved to what the global holds when the call
\* starts, the id the latest set_current_user of any task assigned, and reads
\* or writes that tenant's database and no other; the witness is the
\* interleaving in which that tenant is the other user's.
C8_ResolvedToThePointer ==
    [][\A t \in Tasks :
          /\ SessionAdd(t) =>
                /\ req'[t].user = CURRENT_USER_ID
                /\ \E r \in db'[get_user_db_path(CURRENT_USER_ID)].expenses :
                      /\ r.id = last'.id /\ r.note = NoteOf[Owner[t]]
                      /\ r \notin db[get_user_db_path(CURRENT_USER_ID)].expenses
                /\ \A p \in DbPaths \ {get_user_db_path(CURRENT_USER_ID)} : db'[p] = db[p]
          /\ SessionList(t) =>
                /\ req'[t].user = CURRENT_USER_ID
                /\ last'.out \in SelectExpenses(db[get_user_db_path(CURRENT_USER_ID)])
          /\ set_current_user(t, Owner[t]) => CURRENT_USER_ID' = Owner[t]]_vars

\* Both users have set the current user to their own id, bob last; alice's
\* add_expense without a user_id was resolved to bob and its record, with
\* alice's note, stands in bob's database, alice's own holding none.
C8_Witness ==
    /\ req[1] = Request("add_expense", bob, <<>>, 0)
    /\ HasSetUser(2)
    /\ last.op = "add_expense" /\ last.user = bob
    /\ \E r \in db[get_user_db_path(bob)].expenses : r.note = NoteOf[alice]
    /\ db[get_user_db_path(alice)].expenses = {}

\* The arguments a call supplied.
Supplied(c) == {f \in DOMAIN c : c[f] # None}

\* The four record collections of a database.
Records(d) == <<d.expenses, d.savings, d.saving_goals, d.budgets>>

\* The table old has become new with no row added or removed, and a column
\* of a row differs only on the row with the id and only if it is in may.
OnlyChanged(old, new, id, may) ==
    /\ Cardinality(new) = Cardinality(old)
    /\ \A r \in old : \E r2 \in new :
          /\ r2.id = r.id
          /\ \A f \in DOMAIN r : r2[f] # r[f] => r.id = id /\ f # "id" /\ f \in may

\* C9: update_expense and update_saving_goal change, on the record with the
\* given id, no column but those of the arguments supplied (and subcategory
\* when category is supplied); every column not supplied keeps its value, no
\* record is added or removed, and every other record of the tenant, in the
\* table and in the other tables, is as it was.
C9_UpdateChangesOnlySupplied ==
    [][/\ \A id \in CallIds, c \in FieldExpenseCalls :
             (/\ last'.op = "update_expense"
              /\ last'.id \in {0, id}
              /\ update_expense(id, c.date, c.amount, c.category, c.subcategory,
                                c.note, None)) =>
                LET old == db[PathOf(None)]
                    new == db'[PathOf(None)]
                    may == Supplied(c) \cup IF c.category # None THEN {"subcategory"}
                                            ELSE {}
                IN  /\ OnlyChanged(old.expenses, new.expenses, id, may)
                    /\ new.savings = old.savings
                    /\ new.saving_goals = old.saving_goals
                    /\ new.budgets = old.budgets
       /\ \A id \in CallIds, c \in FieldGoalCalls :
             (/\ last'.op = "update_saving_goal"
              /\ last'.id \in {0, id}
              /\ update_saving_goal(id, c.name, c.target_amount, c.start_date,
                                    c.end_date, c.note, None)) =>
                LET old == db[PathOf(None)]
                    new == db'[PathOf(None)]
                IN  /\ OnlyChanged(old.saving_goals, new.saving_goals, id, Supplied(c))
                    /\ new.expenses = old.expenses
                    /\ new.savings = old.savings
                    /\ new.budgets = old.budgets]_vars

\* Two expenses were added and update_expense(1, note = "n") has run: the
\* first has the new note and its other columns as added, the second is as
\* added.
C9_Witness ==
    /\ last = Returned("update_expense", default_user, "ok", 1, <<>>)
    /\ db[PathOf(None)].expenses =
          {[id |-> 1, date |-> 20240115, amount |-> 1, category |-> food,
            subcategory |-> groceries, note |-> <<"n">>],
           [id |-> 2, date |-> 20240115, amount |-> 1, category |-> food,
            subcategory |-> groceries, note |-> <<>>]}

\* The rows of a table that have the id.
RowsWithId(rows, id) == {r \in rows : r.id = id}

\* C10 as claimed: for every update_expense and update_saving_goal call, the
\* status is not_found if no row has the id and no_changes if no argument
\* was supplied, and in both cases the records are what they were.
C10_NotFoundAndNoChanges ==
    [][/\ \A id \in CallIds, c \in FieldExpenseCalls :
             (/\ last'.op = "update_expense"
              /\ last'.id \in {0, id}
              /\ update_expense(id, c.date, c.amount, c.category, c.subcategory,
                                c.note, None)) =>
                /\ RowsWithId(db[PathOf(None)].expenses, id) = {} =>
                      /\ last'.status = "not_found"
                      /\ Records(db'[PathOf(None)]) = Records(db[PathOf(None)])
                /\ Supplied(c) = {} =>
                      /\ last'.status = "no_changes"
                      /\ Records(db'[PathOf(None)]) = Records(db[PathOf(None)])
       /\ \A id \in CallIds, c \in FieldGoalCalls :
             (/\ last'.op = "update_saving_goal"
              /\ last'.id \in {0, id}
              /\ update_saving_goal(id, c.name, c.target_amount, c.start_date,
                                    c.end_date, c.note, None)) =>
                /\ RowsWithId(db[PathOf(None)].saving_goals, id) = {} =>
                      /\ last'.status = "not_found"
                      /\ Records(db'[PathOf(None)]) = Records(db[PathOf(None)])
                /\ Supplied(c) = {} =>
                      /\ last'.status = "no_changes"
                      /\ Records(db'[PathOf(None)]) = Records(db[PathOf(None)])]_vars

\* What an update call must end with, by its arguments and the rows hit:
\* ValueError for a non-positive amount or target; otherwise no_changes when
\* no argument was supplied, whether or not a row has the id; otherwise
\* not_found when no row has the id.
UpdateEndsWith(nonpositive, supplied, hit, status) ==
    IF nonpositive THEN status = "ValueError"
    ELSE IF supplied = {} THEN status = "no_changes"
    ELSE hit = {} => status = "not_found"

\* C10, amended: an update_expense or update_saving_goal call with a
\* non-positive amount or target raises ValueError; otherwise, with no
\* argument supplied its status is no_changes, whether or not a row has the
\* id, and with an argument supplied and no row of the id its status is
\* not_found; in all three cases the records are what they were.
C10_NoChangesThenNotFound ==
    [][/\ \A id \in CallIds, c \in FieldExpenseCalls :
             (/\ last'.op = "update_expense"
              /\ last'.id \in {0, id}
              /\ update_expense(id, c.date, c.amount, c.category, c.subcategory,
                                c.note, None)) =>
                /\ UpdateEndsWith(c.amount # None /\ c.amount[1] <= 0, Supplied(c),
                                  RowsWithId(db[PathOf(None)].expenses, id),
                                  last'.status)
                /\ last'.status \in {"ValueError", "no_changes", "not_found"} =>
                      Records(db'[PathOf(None)]) = Records(db[PathOf(None)])
                /\ last'.status \in {"ValueError", "no_changes", "not_found", "ok"}
       /\ \A id \in CallIds, c \in FieldGoalCalls :
             (/\ last'.op = "update_saving_goal"
              /\ last'.id \in {0, id}
              /\ update_saving_goal(id, c.name, c.target_amount, c.start_date,
                                    c.end_date, c.note, None)) =>
                /\ UpdateEndsWith(c.target_amount # None /\ c.target_amount[1] <= 0,
                                  Supplied(c),
                                  RowsWithId(db[PathOf(None)].saving_goals, id),
                                  last'.status)
                /\ last'.status \in {"ValueError", "no_changes", "not_found"} =>
                      Records(db'[PathOf(None)]) = Records(db[PathOf(None)])
                /\ last'.status \in {"ValueError", "no_changes", "not_found", "ok"}]_vars

\* update_saving_goal was called with no argument and an id no goal has,
\* a goal being stored: it returned no_changes.
C10_Witness ==
    /\ last = Returned("update_saving_goal", default_user, "no_changes", MaxId + 1, <<>>)
    /\ db[PathOf(None)].saving_goals # {}

\* C11: when update_expense supplies a category, the pair stored is the
\* normalization of (new category, supplied subcategory) if a subcategory is
\* supplied, and of (new category, the subcategory the expense has) if none
\* is: a subcategory the expense has that the new category also lists stays.
C11_CategoryUpdateKeepsSubcategory ==
    [][\A id \in CallIds, c \in RecategorizeCalls :
          (/\ last'.op = "update_expense"
           /\ last'.id = id
           /\ last'.status = "ok"
           /\ update_expense(id, c.date, c.amount, c.category, c.subcategory,
                             c.note, None)) =>
             \A r \in RowsWithId(db[PathOf(None)].expenses, id) :
                 \E r2 \in RowsWithId(db'[PathOf(None)].expenses, id) :
                     LET v == validate_category(categories, c.category,
                                 IF c.subcategory # None THEN c.subcategory
                                 ELSE Some(r.subcategory))
                     IN  r2.category = v.category /\ r2.subcategory = v.subcategory]_vars

\* The records of every database are what they were.
RecordsUnchanged == \A p \in DbPaths : Records(db'[p]) = Records(db[p])

\* The outcome of a delete call on a table: with no row under the key, the
\* status not_found and the records unchanged; with a row under the key, the
\* status ok and no row under the key afterwards.
DeleteOutcome(matching, matchingAfter) ==
    IF matching = {}
    THEN last'.status = "not_found" /\ RecordsUnchanged
    ELSE last'.status = "ok" /\ matchingAfter = {}

\* C12: delete_expense, delete_saving, delete_saving_goal and delete_budget
\* called with a key that matches no row return not_found, do not raise, and
\* leave the records unchanged; called with a key that matches a row they
\* return ok and no row matches the key afterwards, so that the same call
\* made again returns not_found and changes nothing.
C12_DeleteOfMissingKey ==
    [][/\ \A id \in CallIds :
             /\ (last'.op = "delete_expense" /\ delete_expense(id, None)) =>
                   DeleteOutcome(RowsWithId(db[PathOf(None)].expenses, id),
                                 RowsWithId(db'[PathOf(None)].expenses, id))
             /\ (last'.op = "delete_saving" /\ delete_saving(id, None)) =>
                   DeleteOutcome(RowsWithId(db[PathOf(None)].savings, id),
                                 RowsWithId(db'[PathOf(None)].savings, id))
             /\ (last'.op = "delete_saving_goal" /\ delete_saving_goal(id, None)) =>
                   /\ DeleteOutcome(RowsWithId(db[PathOf(None)].saving_goals, id),
                                    RowsWithId(db'[PathOf(None)].saving_goals, id))
                   /\ (last.op = "delete_saving_goal" /\ last.status = "ok"
                          /\ last.id = id) =>
                         last'.status = "not_found" /\ db' = db
       /\ \A c \in DeleteBudgetKeys :
             (last'.op = "delete_budget" /\ delete_budget(c, None)) =>
                 DeleteOutcome(BudgetRowsOf(db[PathOf(None)].budgets, Lower(c)),
                               BudgetRowsOf(db'[PathOf(None)].budgets, Lower(c)))]_vars

\* A goal was added and deleted, and the delete called again returned
\* not_found; a budget is left in the store.
C12_Witness ==
    /\ last.op = "delete_saving_goal"
    /\ last.status = "not_found"
    /\ db[PathOf(None)].seq.saving_goals > 0
    /\ db[PathOf(None)].saving_goals = {}
    /\ db[PathOf(None)].budgets # <<>>

\* The monthly limits of the budget rows of a category.
LimitsOf(d, category) ==
    {d.budgets[k].monthly_limit : k \in BudgetRowsOf(d.budgets, category)}

\* The date is a day of the month of the year.
DatedIn(date, year, month) == date \div 100 = year * 100 + month

\* The category's expenses of the month, summed.
SpentIn(d, category, year, month) ==
    SumAmount({r \in d.expenses : r.category = category
                                    /\ DatedIn(r.date, year, month)})

\* The budget status reported for the limit and the sum, but for the usage
\* percentage.
StatusReported(rep, limit, sum) ==
    /\ rep.monthly_limit = limit
    /\ rep.total_expenses = sum
    /\ rep.budget_status = (IF sum > limit THEN "over_budget" ELSE "under_budget")
    /\ rep.remaining_budget = limit - sum

\* C13 as claimed: for a category with a budget, check_budget_status sums the
\* category's expenses of the month (December's range ends with the year),
\* reports over_budget iff the sum exceeds the limit, remaining_budget =
\* limit - sum, and usage_percentage = 100 * sum / limit exactly.
C13_StatusWithExactPercentage ==
    [][\A c \in StatusCalls :
          (/\ last'.op = "check_budget_status"
           /\ BudgetsOf(db[PathOf(None)], Lower(c[1])) # {}
           /\ check_budget_status(c[1], c[2][1], c[2][2], None)) =>
             \E limit \in LimitsOf(db[PathOf(None)], Lower(c[1])),
                sum \in {SpentIn(db[PathOf(None)], Lower(c[1]), c[2][1], c[2][2])} :
                 /\ last'.status = "ok"
                 /\ StatusReported(last'.out[1], limit, sum)
                 /\ last'.out[1].usage_percentage * limit = 100 * (100 * sum)]_vars

\* C13, amended: the same, with usage_percentage the hundredth of a percent
\* nearest to 100 * sum / limit.
C13_StatusWithRoundedPercentage ==
    [][\A c \in StatusCalls :
          (/\ last'.op = "check_budget_status"
           /\ BudgetsOf(db[PathOf(None)], Lower(c[1])) # {}
           /\ check_budget_status(c[1], c[2][1], c[2][2], None)) =>
             \E limit \in LimitsOf(db[PathOf(None)], Lower(c[1])),
                sum \in {SpentIn(db[PathOf(None)], Lower(c[1]), c[2][1], c[2][2])} :
                 /\ last'.status = "ok"
                 /\ StatusReported(last'.out[1], limit, sum)
                 /\ \E e \in {last'.out[1].usage_percentage * limit - 100 * (100 * sum)} :
                       2 * e <= limit /\ -2 * e <= limit]_vars

\* The scenario of the claim: limit 500, 530 spent in 2024-03, reported as
\* over_budget, -30, 106.00 %, an expense of the category dated 2024-04-01
\* being in the store and not in the sum.
C13_Witness ==
    /\ \E r \in db[PathOf(None)].expenses : r.date = 20240401 /\ r.category = food
    /\ last.op = "check_budget_status"
    /\ last.status = "ok"
    /\ last.out[1].monthly_limit = 500
    /\ last.out[1].total_expenses = 530
    /\ last.out[1].budget_status = "over_budget"
    /\ last.out[1].remaining_budget = -30
    /\ last.out[1].usage_percentage = 10600

\* The months from the month of start to the month of end, the days of the
\* month ignored.
MonthsFromTo(start, end) ==
    (YearOf(end) * 12 + MonthOf(end)) - (YearOf(start) * 12 + MonthOf(start))

\* The savings of a database dated from start to end, summed.
SavedFromTo(d, start, end) ==
    SumAmount({r \in d.savings : start <= r.date /\ r.date <= end})

\* The amount reported in hundredths is the hundredth nearest to num / den.
NearestHundredth(reported, num, den) ==
    \E e \in {reported * den - 100 * num} : 2 * e <= den /\ -2 * e <= den

\* The claimed required_monthly and current_monthly_avg, as <<num, den>>.
RequiredMonthly(target, saved, remaining) ==
    IF remaining > 0 THEN <<Max(target - saved, 0), remaining>> ELSE <<0, 1>>

MonthlyAverage(saved, elapsed) ==
    IF elapsed > 0 THEN <<saved, elapsed>> ELSE <<saved, 1>>

\* The report rep gives the months and amounts claimed for the goal g, today
\* and the amount saved.
InsightsAsClaimed(rep, g, today, saved) ==
    \E total \in {Max(MonthsFromTo(g.start_date, g.end_date[1]), 1)},
       elapsed \in {Max(MonthsFromTo(g.start_date, today), 0)} :
        \E remaining \in {Max(total - elapsed, 0)} :
            /\ rep.months_total = total
            /\ rep.months_elapsed = elapsed
            /\ rep.months_remaining = remaining
            /\ rep.total_saved = saved
            /\ \E q \in {RequiredMonthly(g.target_amount, saved, remaining)} :
                   NearestHundredth(rep.required_monthly_saving, q[1], q[2])
            /\ \E q \in {MonthlyAverage(saved, elapsed)} :
                   NearestHundredth(rep.current_monthly_average, q[1], q[2])

\* C14: for a goal with an end date, get_saving_goal_insights returns
\* months_total = max(monthsBetween(start, end), 1), months_elapsed =
\* max(monthsBetween(start, today), 0), months_remaining = max(total -
\* elapsed, 0), total_saved = the sum of the savings dated in [start, today],
\* and as monthly amounts (to the hundredth) max(target - saved, 0) /
\* months_remaining, or 0 when no month remains, and saved / months_elapsed,
\* or saved when no month has elapsed.
C14_InsightsMonthsAndAmounts ==
    [][\A id \in GoalIds, today \in Todays :
          \A g \in {x \in GoalWithId(db[PathOf(None)], id) : x.end_date # None} :
              (/\ last'.op = "get_saving_goal_insights"
               /\ get_saving_goal_insights(id, today, None)) =>
                  /\ last'.status = "ok"
                  /\ InsightsAsClaimed(last'.out[1], g, today,
                        SavedFromTo(db[PathOf(None)], g.start_date, today))]_vars

\* The scenario of the claim: target 1200 from 2024-01-01 to 2024-12-31,
\* 100 saved on 2024-01-15 and on 2024-02-15, asked on 2024-03-01: 11 months
\* in all, 2 elapsed, 9 remaining, 200 saved, 111.11 required a month, 100.00
\* saved a month, behind.
C14_Witness ==
    /\ last.op = "get_saving_goal_insights"
    /\ last.status = "ok"
    /\ {<<r.date, r.amount>> : r \in db[PathOf(None)].savings}
           = {<<20240115, 100>>, <<20240215, 100>>}
    /\ last.out[1].target_amount = 1200
    /\ last.out[1].months_total = 11
    /\ last.out[1].months_elapsed = 2
    /\ last.out[1].months_remaining = 9
    /\ last.out[1].total_saved = 200
    /\ last.out[1].required_monthly_saving = 11111
    /\ last.out[1].current_monthly_average = 10000
    /\ last.out[1].pace_status = "behind"

\* The pace claimed for the months remaining and elapsed, the target and the
\* amount saved: the three tests in their order, the monthly amounts
\* compared exactly.
PaceAsClaimed(target, saved, remaining, elapsed) ==
    IF remaining = 0 /\ Max(target - saved, 0) > 0 THEN "missed_goal"
    ELSE LET q == RequiredMonthly(target, saved, remaining)
             a == MonthlyAverage(saved, elapsed)
         IN  IF a[1] * q[2] >= q[1] * a[2] THEN "on_track" ELSE "behind"

\* C15: for every goal with an end date get_saving_goal_insights reports one
\* of missed_goal, on_track, behind: missed_goal if no month remains and the
\* target is not reached; otherwise on_track if the monthly average is at
\* least the required monthly amount, equality included; otherwise behind.
C15_PaceInOrder ==
    [][\A id \in GoalIds, today \in Todays :
          \A g \in {x \in GoalWithId(db[PathOf(None)], id) : x.end_date # None} :
              (/\ last'.op = "get_saving_goal_insights"
               /\ get_saving_goal_insights(id, today, None)) =>
                  /\ last'.status = "ok"
                  /\ last'.out[1].pace_status \in {"missed_goal", "on_track", "behind"}
                  /\ last'.out[1].pace_status =
                        PaceAsClaimed(g.target_amount,
                            SavedFromTo(db[PathOf(None)], g.start_date, today),
                            last'.out[1].months_remaining,
                            last'.out[1].months_elapsed)]_vars

\* A goal of 300 over three months, 100 saved after one: the average of 100
\* a month equals the 200 / 2 required, and the pace is on_track.
C15_Witness ==
    /\ last.op = "get_saving_goal_insights"
    /\ last.status = "ok"
    /\ last.out[1].target_amount = 300
    /\ last.out[1].total_saved = 100
    /\ last.out[1].months_elapsed = 1
    /\ last.out[1].months_remaining = 2
    /\ last.out[1].pace_status = "on_track"

\* The savings of a database dated on or after start and, if the goal has an
\* end date, on or before it, summed.
SavedForGoal(d, g) ==
    SumAmount({r \in d.savings :
                  r.date >= g.start_date
                      /\ (g.end_date # None => r.date <= g.end_date[1])})

\* The progress reported for the goal and the amount saved, but for the
\* percentage.
ProgressReported(rep, g, saved) ==
    /\ rep.total_saved = saved
    /\ rep.remaining = Max(g.target_amount - saved, 0)
    /\ rep.remaining >= 0

\* C16 as claimed: for an existing goal get_saving_goal_progress reports
\* total_saved = the sum of the savings dated on or after start_date and, if
\* there is an end date, on or before it, remaining = max(target -
\* total_saved, 0), and progress_percentage = 100 * total_saved / target
\* exactly.
C16_ProgressWithExactPercentage ==
    [][\A id \in GoalIds :
          \A g \in GoalWithId(db[PathOf(None)], id) :
              (/\ last'.op = "get_saving_goal_progress"
               /\ get_saving_goal_progress(id, None)) =>
                  /\ last'.status = "ok"
                  /\ ProgressReported(last'.out[1], g, SavedForGoal(db[PathOf(None)], g))
                  /\ last'.out[1].progress_percentage * g.target_amount
                        = 100 * (100 * SavedForGoal(db[PathOf(None)], g))]_vars

\* C16, amended: the same, with progress_percentage the hundredth of a
\* percent nearest to 100 * total_saved / target.
C16_ProgressWithRoundedPercentage ==
    [][\A id \in GoalIds :
          \A g \in GoalWithId(db[PathOf(None)], id) :
              (/\ last'.op = "get_saving_goal_progress"
               /\ get_saving_goal_progress(id, None)) =>
                  /\ last'.status = "ok"
                  /\ ProgressReported(last'.out[1], g, SavedForGoal(db[PathOf(None)], g))
                  /\ NearestHundredth(last'.out[1].progress_percentage,
                                      100 * SavedForGoal(db[PathOf(None)], g),
                                      g.target_amount)]_vars

\* 400 saved for a goal of 300 that has an end date: nothing remains and the
\* progress is 133.33 %.
C16_Witness ==
    /\ last.op = "get_saving_goal_progress"
    /\ last.status = "ok"
    /\ \E g \in db[PathOf(None)].saving_goals : g.id = last.id /\ g.end_date # None
    /\ last.out[1].target_amount = 300
    /\ last.out[1].total_saved = 400
    /\ last.out[1].remaining = 0
    /\ last.out[1].progress_percentage = 13333

\* C17: for a goal whose end_date is absent, get_saving_goal_insights
\* returns the status no_deadline, without raising and with no pace, whatever
\* the day; get_saving_goal_progress returns ok with total_saved the sum of
\* all the savings dated on or after start_date.
C17_NoEndDate ==
    [][\A id \in GoalIds :
          \A g \in {x \in GoalWithId(db[PathOf(None)], id) : x.end_date = None} :
              /\ \A today \in Todays :
                    (/\ last'.op = "get_saving_goal_insights"
                     /\ get_saving_goal_insights(id, today, None)) =>
                        last'.status = "no_deadline" /\ last'.out = <<>>
              /\ (/\ last'.op = "get_saving_goal_progress"
                  /\ get_saving_goal_progress(id, None)) =>
                     /\ last'.status = "ok"
                     /\ last'.out[1].total_saved =
                           SumAmount({r \in db[PathOf(None)].savings :
                                         r.date >= g.start_date})]_vars

\* The progress of a goal with no end date that starts on 2024-01-15: of the
\* savings of 2023-12-31 and 2024-04-02, the second one is counted.
C17_Witness ==
    /\ last.op = "get_saving_goal_progress"
    /\ last.status = "ok"
    /\ \E g \in db[PathOf(None)].saving_goals :
          g.id = last.id /\ g.end_date = None /\ g.start_date = 20240115
    /\ {<<r.date, r.amount>> : r \in db[PathOf(None)].savings}
          = {<<20231231, 100>>, <<20240402, 200>>}
    /\ last.out[1].total_saved = 200

\* The expenses of a database dated from start to end, of the category if one
\* is given (None and the empty string give none).
ExpensesFromTo(d, start, end, category) ==
    {r \in d.expenses :
        /\ start <= r.date /\ r.date <= end
        /\ (category # None /\ category # Some(<<>>)) => r.category = Lower(category[1])}

\* The list has one row for each category of the expenses, and no other,
\* each with the sum and the count of the category's expenses, the totals
\* descending.
SummaryOf(out, expenses) ==
    /\ {out[k].category : k \in 1..Len(out)} = {r.category : r \in expenses}
    /\ \A j, k \in 1..Len(out) : j # k => out[j].category # out[k].category
    /\ \A k \in 1..Len(out) :
          /\ out[k].total_amount
                = SumAmount({r \in expenses : r.category = out[k].category})
          /\ out[k].count
                = Cardinality({r \in expenses : r.category = out[k].category})
    /\ \A j, k \in 1..Len(out) : j < k => out[j].total_amount >= out[k].total_amount

\* C18: expense_summary_by_category(start, end, category) with start > end
\* raises an error; otherwise it returns one row for exactly each category
\* that has an expense dated in [start, end], both ends included (only the
\* given category if one is given), each with the sum and the count of those
\* expenses, ordered by the sum descending.
C18_SummaryByCategory ==
    [][\A c \in SummaryCalls :
          (/\ last'.op = "expense_summary_by_category"
           /\ expense_summary_by_category(c[1][1], c[1][2], c[2], None)) =>
             IF c[1][1] > c[1][2]
             THEN last'.status = "ValueError" /\ db' = db
             ELSE /\ last'.status = "ok"
                  /\ SummaryOf(last'.out,
                        ExpensesFromTo(db[PathOf(None)], c[1][1], c[1][2], c[2]))]_vars

\* A summary of two categories: misc with 2 spent on the last day of the
\* range comes before food with 1 spent on its first day.
C18_Witness ==
    /\ last.op = "expense_summary_by_category"
    /\ last.status = "ok"
    /\ {<<r.date, r.amount, r.category>> : r \in db[PathOf(None)].expenses}
          = {<<20240115, 1, food>>, <<20240131, 2, misc>>}
    /\ last.out = <<[category |-> misc, total_amount |-> 2, count |-> 1],
                    [category |-> food, total_amount |-> 1, count |-> 1]>>

\* No record of any database holds a date that names no day of the calendar.
NoMalformedDate ==
    \A d \in Databases :
        /\ \A r \in d.expenses \cup d.savings : IsDate(r.date)
        /\ \A g \in d.saving_goals :
              IsDate(g.start_date) /\ (g.end_date # None => IsDate(g.end_date[1]))

\* The call was rejected with a validation error and changed no database.
RejectedUnchanged == last'.status = "ValueError" /\ db' = db

\* C19: add_expense, add_saving, add_saving_goal, update_expense and
\* update_saving_goal called with a date that is not a day of the calendar
\* are rejected with a validation error and leave the store unchanged, and
\* no stored record ever holds such a date.
C19_MalformedDateRejected ==
    [][/\ \A date \in {x \in WrittenDates : ~IsDate(x)} :
             /\ (/\ last'.op = "add_expense"
                 /\ add_expense(date, 1, Some(food), Some(groceries), <<>>, None))
                    => RejectedUnchanged
             /\ (/\ last'.op = "add_saving"
                 /\ add_saving(date, 1, Some(salary), <<>>, None))
                    => RejectedUnchanged
             /\ (/\ last'.op = "add_saving_goal"
                 /\ \/ add_saving_goal(car, 100, date, None, <<>>, None)
                    \/ add_saving_goal(car, 100, 20240115, Some(date), <<>>, None))
                    => RejectedUnchanged
             /\ \A id \in CallIds :
                   /\ (/\ last'.op = "update_expense"
                       /\ update_expense(id, Some(date), None, None, None, None, None))
                          => RejectedUnchanged
                   /\ (/\ last'.op = "update_saving_goal"
                       /\ \/ update_saving_goal(id, None, None, Some(date), None,
                                                None, None)
                          \/ update_saving_goal(id, None, None, None, Some(date),
                                                None, None))
                          => RejectedUnchanged
       /\ NoMalformedDate']_vars

\* The row r2 has every field the call c supplies (the category as
\* validate_category gives it).
AllSupplied(r2, c, fields) ==
    /\ \A f \in fields \ {"category", "end_date"} : c[f] # None => r2[f] = c[f][1]
    /\ ("category" \in fields /\ c.category # None) =>
          r2.category = validate_category(categories, c.category, c.subcategory).category
    /\ ("end_date" \in fields /\ c.end_date # None) => r2.end_date = c.end_date

\* Each row of old with the id is in new with all the supplied fields of the
\* call, or as it was.
AllOrNone(old, new, id, c, fields) ==
    \A r \in RowsWithId(old, id) :
        \E r2 \in RowsWithId(new, id) : r2 = r \/ AllSupplied(r2, c, fields)

\* C20: a write that completes is committed and a write that fails, before
\* or on its connection, leaves the records as they were: after an
\* add_expense, update_expense, update_saving_goal or delete_expense call
\* that did not return ok the records are unchanged; after an update call
\* the row has all the supplied fields or is as it was, and has them all if
\* the call returned ok.
C20_WriteAllOrNothing ==
    [][/\ last'.op \in {"add_expense", "update_expense", "update_saving_goal",
                        "delete_expense"}
             => (last'.status # "ok" => RecordsUnchanged)
       /\ \A id \in CallIds, failed \in BOOLEAN :
             /\ \A c \in TxExpenseCalls :
                   (/\ last'.op = "update_expense"
                    /\ last'.id \in {0, id}
                    /\ failed = (last'.status = "OperationalError")
                    /\ IF failed
                       THEN update_expense_failed(id, c.date, c.amount, c.category,
                                                  c.subcategory, c.note, None)
                       ELSE update_expense(id, c.date, c.amount, c.category,
                                           c.subcategory, c.note, None)) =>
                      /\ AllOrNone(db[PathOf(None)].expenses, db'[PathOf(None)].expenses,
                                   id, c, {"date", "amount", "category", "note"})
                      /\ last'.status = "ok" =>
                            \A r2 \in RowsWithId(db'[PathOf(None)].expenses, id) :
                                AllSupplied(r2, c, {"date", "amount", "category", "note"})
             /\ \A c \in TxGoalCalls :
                   (/\ last'.op = "update_saving_goal"
                    /\ last'.id \in {0, id}
                    /\ failed = (last'.status = "OperationalError")
                    /\ IF failed
                       THEN update_saving_goal_failed(id, c.name, c.target_amount,
                                                      c.start_date, c.end_date, c.note, None)
                       ELSE update_saving_goal(id, c.name, c.target_amount,
                                               c.start_date, c.end_date, c.note, None)) =>
                      /\ AllOrNone(db[PathOf(None)].saving_goals,
                                   db'[PathOf(None)].saving_goals, id, c,
                                   {"name", "target_amount", "end_date"})
                      /\ last'.status = "ok" =>
                            \A r2 \in RowsWithId(db'[PathOf(None)].saving_goals, id) :
                                AllSupplied(r2, c, {"name", "target_amount", "end_date"})]_vars

\* An update of the stored expense failed on its connection, and the expense
\* is as it was added.
C20_Witness ==
    /\ last.op = "update_expense"
    /\ last.status = "OperationalError"
    /\ \E r \in db[PathOf(None)].expenses :
          r.date = 20240115 /\ r.amount = 1 /\ r.category = food /\ r.note = <<>>

\* C21: every CREATE TABLE of init_db, whatever other task runs init_db or
\* writes in between, leaves the records of every tenant as they were and
\* adds no table but one of expenses, savings, saving_goals, budgets; on a
\* tenant that has the four tables it changes nothing; and initialize_user
\* returns ok, without raising, with exactly the four tables in place.
C21_ProvisioningIdempotent ==
    [][/\ \A t \in Tasks, k \in 1..Len(TablesInOrder) :
             init_db_create(t, k) =>
                 /\ RecordsUnchanged
                 /\ \A p \in DbPaths :
                       db[p].tables \subseteq db'[p].tables
                           /\ db'[p].tables \subseteq AllTables
                 /\ db[get_user_db_path(req[t].user)].tables = AllTables => db' = db
       /\ \A t \in Tasks :
             initialize_user_return(t) =>
                 /\ last'.status = "ok"
                 /\ db'[get_user_db_path(req[t].user)].tables = AllTables
                 /\ db' = db]_vars

\* initialize_user has returned for a tenant that holds an expense, while
\* the other task is in the middle of init_db for the same tenant.
C21_Witness ==
    /\ last.op = "initialize_user"
    /\ last.status = "ok"
    /\ db[get_user_db_path(last.user)].expenses # {}
    /\ db[get_user_db_path(last.user)].tables = AllTables
    /\ \E t \in Tasks : pc[t] = "init_db_saving_goals" /\ req[t].user = last.user

\* The list holds each of the rows once and nothing else, the values of the
\* key descending.
ListsDescending(out, rows, key) ==
    /\ {out[k] : k \in 1..Len(out)} = rows
    /\ Len(out) = Cardinality(rows)
    /\ \A j, k \in 1..Len(out) : j < k => out[j][key] >= out[k][key]

\* The rows dated from start to end, both included.
DatedFromTo(rows, start, end) == {r \in rows : start <= r.date /\ r.date <= end}

\* C22: list_expenses and list_saving_goals return every record of the kind,
\* list_savings with no range every saving, list_expenses_by_date(start, end)
\* and list_savings(start, end) exactly the records dated from start to end,
\* both included; the expenses and the savings come by date descending, the
\* goals by start_date descending.
C22_ListsInRangeDescending ==
    [][/\ (last'.op = "list_expenses" /\ list_expenses(None)) =>
             ListsDescending(last'.out, db[PathOf(None)].expenses, "date")
       /\ (last'.op = "list_saving_goals" /\ list_saving_goals(None)) =>
             ListsDescending(last'.out, db[PathOf(None)].saving_goals, "start_date")
       /\ (last'.op = "list_savings" /\ list_savings(None, None, None)) =>
             ListsDescending(last'.out, db[PathOf(None)].savings, "date")
       /\ \A c \in ListRanges :
             /\ (last'.op = "list_expenses_by_date"
                    /\ list_expenses_by_date(c[1], c[2], None)) =>
                   ListsDescending(last'.out,
                       DatedFromTo(db[PathOf(None)].expenses, c[1], c[2]), "date")
             /\ (last'.op = "list_savings"
                    /\ list_savings(Some(c[1]), Some(c[2]), None)) =>
                   ListsDescending(last'.out,
                       DatedFromTo(db[PathOf(None)].savings, c[1], c[2]), "date")]_vars

\* Of the savings of 2024-01-31 and 2024-02-01, the list for the range from
\* 2024-01-15 to 2024-01-31 holds the first one only.
C22_Witness ==
    /\ last.op = "list_savings"
    /\ {r.date : r \in db[PathOf(None)].savings} = {20240131, 20240201}
    /\ Len(last.out) = 1
    /\ last.out[1].date = 20240131

\* t is s without the whitespace around it, in lower case.
TrimmedLowerOf(s, t) ==
    \E i \in 1..(Len(s) + 1) :
        /\ i + Len(t) - 1 <= Len(s)
        /\ \A k \in 1..Len(t) : t[k] = LowerChar(s[i + k - 1])
        /\ \A k \in 1..Len(s) : (k < i \/ k > i + Len(t) - 1) => s[k] \in Whitespace
        /\ t # <<>> => s[i] \notin Whitespace /\ s[i + Len(t) - 1] \notin Whitespace

\* The text of an optional argument (None is the empty text).
TextOf(o) == IF o = None THEN <<>> ELSE o[1]

\* The pair claimed for the trimmed, lower-cased inputs tc and ts.
PairAsClaimed(cats, tc, ts, cat, sub) ==
    /\ cat = (IF tc = <<>> \/ tc \notin DOMAIN cats THEN misc ELSE tc)
    /\ sub = (IF ts # <<>> /\ InList(ts, cats[cat]) THEN ts
              ELSE IF InList(other, cats[cat]) THEN other
              ELSE cats[cat][1])

\* C23: validate_category returns the pair these steps give: both inputs
\* trimmed and lower-cased; the category "misc" if it is empty or no key of
\* the vocabulary; the subcategory kept if it is a non-empty member of the
\* category's list, else "other" if the list has it, else the first of the
\* list.  A pair that is a key and a member of its list comes back unchanged.
C23_NormalizationSteps ==
    last.op = "validate_category" =>
        /\ last.status = "ok"
        /\ \E tc \in {Lower(Strip(TextOf(last.out[1])))},
              ts \in {Lower(Strip(TextOf(last.out[2])))} :
               /\ TrimmedLowerOf(TextOf(last.out[1]), tc)
               /\ TrimmedLowerOf(TextOf(last.out[2]), ts)
               /\ PairAsClaimed(categories, tc, ts, last.out[3], last.out[4])
        /\ (/\ last.out[1] # None
            /\ last.out[2] # None
            /\ TextOf(last.out[1]) \in DOMAIN categories
            /\ InList(TextOf(last.out[2]), categories[TextOf(last.out[1])])) =>
               last.out[3] = last.out[1][1] /\ last.out[4] = last.out[2][1]

\* " Food<tab>" and " GROCERIES" with a file that lists "other" first: the
\* pair returned is food, groceries.
C23_Witness ==
    /\ last.op = "validate_category"
    /\ categories = VocabOtherFirst
    /\ last.out[1] = Some(<<" ","F","o","o","d","\t">>)
    /\ last.out[2] = Some(<<" ","G","R","O","C","E","R","I","E","S">>)
    /\ last.out[3] = food
    /\ last.out[4] = groceries

\* C24: whenever no update_expense is under way, two concurrent calls on one
\* expense, one with a new category and one with a subcategory only, having
\* run in any interleaving, the pair stored is jointly valid: the subcategory
\* is in the list of the stored category.
C24_ConcurrentUpdatesJointlyValid ==
    (\A t \in Tasks : pc[t] = "idle") =>
        \A r \in db[PathOf(None)].expenses : JointlyValid(r)

\* The user a call with this user_id acts for, as the claim has it: the one
\* given, and the current user when none or an empty one is given.
TenantOf(user_id) ==
    IF user_id \in {None, Some(<<>>)} THEN CURRENT_USER_ID ELSE user_id[1]

\* No database but the one of user u differs after the step.
TouchesOnly(u) == \A p \in DbPaths \ {get_user_db_path(u)} : db'[p] = db[p]

\* C25: an operation resolves its tenant once, in its first step: a call with
\* a user_id acts for that user whatever the current user is, a call without
\* one for the current user of that moment; while the call is under way no
\* step of another task (a set_current_user among them) changes the tenant it
\* holds, and each later step of the call (the UPDATE of update_expense, the
\* init_db and the upsert of set_budget) touches the database of that tenant
\* only and returns for that tenant.
C25_TenantResolvedOnce ==
    [][\A t \in Tasks :
          /\ \A user_id \in SwitchUserIds :
                /\ \A c \in SwitchCalls :
                      update_expense_build(t, 1, None, None, c[1], c[2], None, user_id) =>
                          /\ TouchesOnly(TenantOf(user_id))
                          /\ pc'[t] # "idle" => req'[t].user = TenantOf(user_id)
                          /\ pc'[t] = "idle" => last'.user = TenantOf(user_id)
                /\ set_budget(t, food, 100, user_id) =>
                      /\ TouchesOnly(TenantOf(user_id))
                      /\ req'[t].user = TenantOf(user_id)
          /\ (pc[t] \in {"update_expense_execute", "set_budget_init_db", "set_budget_execute"}) =>
                /\ req'[t].user = req[t].user
                /\ Stepping(t) =>
                      /\ TouchesOnly(req[t].user)
                      /\ pc'[t] = "idle" => last'.user = req[t].user]_vars

\* A subcategory-only update of alice's expense was under way when
\* set_current_user made bob the current user; its UPDATE has since run, on
\* alice's expense, and bob's is as it was added.
C25_Witness ==
    /\ CURRENT_USER_ID = bob
    /\ last = Returned("update_expense", alice, "ok", 1, <<>>)
    /\ \E t \in Tasks :
          /\ pc[t] = "idle"
          /\ req[t].op = "update_expense"
          /\ req[t].user = alice
    /\ \E r \in db[get_user_db_path(alice)].expenses : r.subcategory = other
    /\ \E r \in db[get_user_db_path(bob)].expenses : r.subcategory = groceries

\* set_budget(c, l) has just returned ok: the call that returned last is a
\* set_budget whose locals are those of a call given c and l.
JustSet(c, l) ==
    /\ last = Returned("set_budget", CURRENT_USER_ID, "ok", 0, <<>>)
    /\ pc[1] = "idle"
    /\ req[1] = Request("set_budget", CURRENT_USER_ID,
                        validate_category(categories, Some(c), None).category, l)

\* C26: for every raw category string c and limit l > 0, once set_budget(c, l)
\* has returned ok, check_budget_status(c, year, month) does not return
\* no_budget and reports the limit l, and delete_budget(c) returns ok and
\* leaves no budget that set_budget(c, l) stored.
C26_SetCheckDeleteSameRow ==
    [][\A c \in BudgetKeys, l \in BudgetKeyLimits :
          JustSet(c, l) =>
              /\ check_budget_status(c, 2024, 3, None) =>
                    /\ last'.status = "ok"
                    /\ last'.out[1].monthly_limit = l
              /\ delete_budget(c, None) =>
                    /\ last'.status = "ok"
                    /\ BudgetRowsOf(db'[PathOf(None)].budgets,
                                    validate_category(categories, Some(c), None).category) = {}]_vars

\* C27: every budget stored has a monthly_limit above 0 and every saving goal
\* stored a target_amount above 0, so that check_budget_status and
\* get_saving_goal_progress, which divide by them, never divide by zero.
C27_LimitsAndTargetsPositive ==
    /\ \A d \in Databases :
          /\ \A k \in DOMAIN d.budgets : d.budgets[k].monthly_limit > 0
          /\ \A g \in d.saving_goals : g.target_amount > 0
    /\ last.status # "ZeroDivisionError"

\* A budget and a saving goal stand, an update of the goal to the target 0
\* has just been refused, and the goal keeps its target.
C27_Witness ==
    /\ last = Returned("update_saving_goal", default_user, "ValueError", 0, <<>>)
    /\ Len(db[PathOf(None)].budgets) = 1
    /\ \E g \in db[PathOf(None)].saving_goals : g.target_amount = 300

\* C28: for a goal with an end date, whenever the savings dated from the
\* goal's start_date to today sum to the target or more,
\* get_saving_goal_insights reports the pace on_track, and neither behind nor
\* missed_goal, whatever today is, a day after the end date included.
C28_ReachedGoalOnTrack ==
    [][\A id \in GoalIds, today \in Todays :
          \A g \in {x \in GoalWithId(db[PathOf(None)], id) : x.end_date # None} :
              (/\ last'.op = "get_saving_goal_insights"
               /\ SavedFromTo(db[PathOf(None)], g.start_date, today) >= g.target_amount
               /\ get_saving_goal_insights(id, today, None)) =>
                  /\ last'.status = "ok"
                  /\ last'.out[1].pace_status = "on_track"]_vars

\* The target of 300 was reached with 100 and 200 saved in January and
\* February 2024; asked after the end date, with no month remaining, the
\* insights say on_track.
C28_Witness ==
    /\ last.op = "get_saving_goal_insights"
    /\ last.status = "ok"
    /\ last.out[1].target_amount = 300
    /\ last.out[1].total_saved = 300
    /\ last.out[1].months_remaining = 0
    /\ last.out[1].months_elapsed = 12
    /\ last.out[1].pace_status = "on_track"

IdTables == {"expenses", "savings", "saving_goals"}

\* The largest id the table has given so far in the database d, as
\* sqlite_sequence keeps it.
LargestGiven(d, table) == d.seq[table]

\* The add of this step returned an id above every id the table had given
\* and above every id in the table.
GivenAbove(table) ==
    last'.status = "ok" =>
        /\ last'.id > LargestGiven(db[PathOf(None)], table)
        /\ \A r \in db[PathOf(None)][table] : last'.id > r.id
        /\ LargestGiven(db'[PathOf(None)], table) = last'.id

\* C30: within a tenant, the id add_expense returns is above every id the
\* expenses table has given before, whatever adds, updates and deletes came
\* between (likewise add_saving and add_saving_goal, each for its table): no
\* step lowers the largest id given, a delete of the row with that id
\* included, so that the ids go up strictly and the id of a deleted record is
\* not given again.
C30_IdsNeverReused ==
    [][/\ \A table \in IdTables :
             /\ LargestGiven(db'[PathOf(None)], table) >= LargestGiven(db[PathOf(None)], table)
             /\ \A r \in db'[PathOf(None)][table] :
                    r.id <= LargestGiven(db'[PathOf(None)], table)
       /\ DeleteAddExpense => GivenAbove("expenses")
       /\ DeleteAddSaving => GivenAbove("savings")
       /\ DeleteAddGoal => GivenAbove("saving_goals")]_vars

\* The saving with id 1 was deleted, and the saving added after it has id 2,
\* the only row of the table.
C30_Witness ==
    /\ last = Returned("add_saving", default_user, "ok", 2, <<>>)
    /\ IdsOf(db[PathOf(None)].savings) = {2}
    /\ LargestGiven(db[PathOf(None)], "savings") = 2
====
